---- MODULE Spec2Model ----
(***************************************************************************)
(* A model of the lemon WASM tool sidecar: the capability model            *)
(* (capabilities.rs), the invocation engine and host surface (runtime.rs)  *)
(* and the host-call coordinator of the sidecar's main loop (main.rs).     *)
(*                                                                         *)
(* Strings whose contents the code inspects (prefixes, substrings, case)   *)
(* are sequences of one-character strings; strings the code only compares  *)
(* for equality (tool names, aliases, programs, ids) are TLA+ strings.     *)
(* An Option is a sequence of length 0 (None) or 1 (Some).                 *)
(***************************************************************************)
EXTENDS Integers, Sequences, FiniteSets, TLC

None == <<>>

Some(v) == <<v>>

Ok(v) == [ok |-> TRUE, val |-> v]

\* An error string: a fixed message and the operand formatted into it.
Err(m, d) == [ok |-> FALSE, msg |-> m, detail |-> d]

SeqMin(S) == CHOOSE i \in S : \A j \in S : i <= j

(***************************************************************************)
(* str primitives of the Rust standard library, as the code uses them.     *)
(***************************************************************************)
\* str::starts_with
StartsWith(s, p) == Len(p) <= Len(s) /\ SubSeq(s, 1, Len(p)) = p

\* str::ends_with
EndsWith(s, p) == Len(p) <= Len(s) /\ SubSeq(s, Len(s) - Len(p) + 1, Len(s)) = p

\* pat occurs in s at (1-based) position i
MatchAt(s, pat, i) ==
    /\ i >= 1
    /\ i + Len(pat) - 1 <= Len(s)
    /\ SubSeq(s, i, i + Len(pat) - 1) = pat

\* str::find on s[from..]: the least position >= from where pat occurs, 0 if none
Find(s, pat, from) ==
    LET hits == {i \in from..(Len(s) + 1) : MatchAt(s, pat, i)}
    IN IF hits = {} THEN 0 ELSE SeqMin(hits)

\* str::contains
Contains(s, pat) == Find(s, pat, 1) # 0

\* str::replace for a non-empty pattern: non-overlapping matches, left to right
RECURSIVE StrReplaceFrom(_, _, _, _)
StrReplaceFrom(s, pat, to, i) ==
    IF i > Len(s) THEN <<>>
    ELSE IF MatchAt(s, pat, i) THEN to \o StrReplaceFrom(s, pat, to, i + Len(pat))
    ELSE <<s[i]>> \o StrReplaceFrom(s, pat, to, i + 1)

StrReplace(s, pat, to) == StrReplaceFrom(s, pat, to, 1)

UpperChars == <<"A","B","C","D","E","F","G","H","I","J","K","L","M",
                "N","O","P","Q","R","S","T","U","V","W","X","Y","Z">>

LowerChars == <<"a","b","c","d","e","f","g","h","i","j","k","l","m",
                "n","o","p","q","r","s","t","u","v","w","x","y","z">>

\* char::to_ascii_lowercase
LowerChar(c) ==
    IF \E i \in DOMAIN UpperChars : UpperChars[i] = c
    THEN LowerChars[CHOOSE i \in DOMAIN UpperChars : UpperChars[i] = c]
    ELSE c

\* char::to_ascii_uppercase
UpperChar(c) ==
    IF \E i \in DOMAIN LowerChars : LowerChars[i] = c
    THEN UpperChars[CHOOSE i \in DOMAIN LowerChars : LowerChars[i] = c]
    ELSE c

\* str::to_ascii_lowercase
ToAsciiLowercase(s) == [i \in DOMAIN s |-> LowerChar(s[i])]

\* str::to_ascii_uppercase
ToAsciiUppercase(s) == [i \in DOMAIN s |-> UpperChar(s[i])]

\* str::eq_ignore_ascii_case
EqIgnoreAsciiCase(a, b) == ToAsciiLowercase(a) = ToAsciiLowercase(b)

\* the character '\0'
NulChar == "NUL"

WhitespaceChars == {" ", "\t", "\n"}

\* str::trim().is_empty()
TrimIsEmpty(s) == \A i \in DOMAIN s : s[i] \in WhitespaceChars

(***************************************************************************)
(* capabilities.rs: the capability model.  caps is a CapabilitiesFile:     *)
(* [http, secrets, tool_invoke, workspace, exec], each an Option.          *)
(***************************************************************************)
\* CapabilitiesFile::default()
DefaultCapabilities ==
    [http |-> None, secrets |-> None, tool_invoke |-> None,
     workspace |-> None, exec |-> None]

HostMatchesBySuffix(host, pattern) ==
    \/ EqIgnoreAsciiCase(host, pattern)
    \/ /\ StartsWith(pattern, <<"*", ".">>)
       /\ EndsWith(ToAsciiLowercase(host),
                   ToAsciiLowercase(SubSeq(pattern, 3, Len(pattern))))

host_matches_pattern(host, pattern) ==
    IF EqIgnoreAsciiCase(host, pattern) THEN TRUE
    ELSE IF StartsWith(pattern, <<"*", ".">>)
    THEN LET suffix == SubSeq(pattern, 3, Len(pattern))
         IN IF EqIgnoreAsciiCase(host, suffix) THEN FALSE
            ELSE EndsWith(ToAsciiLowercase(host), <<".">> \o ToAsciiLowercase(suffix))
    ELSE FALSE

MatchPatternInfix(pattern, value) ==
    \/ pattern = value
    \/ \E i \in DOMAIN pattern :
          /\ pattern[i] = "*"
          /\ StartsWith(value, SubSeq(pattern, 1, i - 1))
          /\ EndsWith(value, SubSeq(pattern, i + 1, Len(pattern)))

match_pattern(pattern, value) ==
    IF pattern = value THEN TRUE
    ELSE IF EndsWith(pattern, <<"*">>)
    THEN StartsWith(value, SubSeq(pattern, 1, Len(pattern) - 1))
    ELSE FALSE

secret_allowed(caps, name) ==
    IF caps.secrets = None THEN FALSE
    ELSE \E i \in DOMAIN caps.secrets[1].allowed_names :
            match_pattern(caps.secrets[1].allowed_names[i], name)

WorkspaceReadAllowedByPrefix(caps, path) ==
    IF caps.workspace = None THEN FALSE
    ELSE IF caps.workspace[1].allowed_prefixes = <<>> THEN TRUE
    ELSE \E i \in DOMAIN caps.workspace[1].allowed_prefixes :
            StartsWith(path, caps.workspace[1].allowed_prefixes[i])

workspace_read_allowed(caps, path) ==
    IF \/ path = <<>>
       \/ StartsWith(path, <<"/">>)
       \/ Contains(path, <<".", ".">>)
       \/ Contains(path, <<NulChar>>)
    THEN FALSE
    ELSE IF caps.workspace = None THEN FALSE
    ELSE IF caps.workspace[1].allowed_prefixes = <<>> THEN TRUE
    ELSE \E i \in DOMAIN caps.workspace[1].allowed_prefixes :
            StartsWith(path, caps.workspace[1].allowed_prefixes[i])

resolve_tool_alias(caps, alias) ==
    IF caps.tool_invoke = None THEN None
    ELSE IF alias \in DOMAIN caps.tool_invoke[1].aliases
    THEN Some(caps.tool_invoke[1].aliases[alias])
    ELSE None

\* .and_then(rate_limit).map(requests_per_minute).filter(> 0).unwrap_or(dflt)
RateLimitOr(section, dflt) ==
    IF section = None THEN dflt
    ELSE IF section[1].rate_limit = None THEN dflt
    ELSE IF section[1].rate_limit[1].requests_per_minute > 0
    THEN section[1].rate_limit[1].requests_per_minute
    ELSE dflt

DefaultToolInvokeLimit == 20

DefaultHttpLimit == 50

DefaultExecLimit == 10

tool_invoke_limit(caps) == RateLimitOr(caps.tool_invoke, DefaultToolInvokeLimit)

http_limit(caps) == RateLimitOr(caps.http, DefaultHttpLimit)

exec_limit(caps) == RateLimitOr(caps.exec, DefaultExecLimit)

\* A URL is the record Url::parse makes of it: [parses, host (Option), path, query].
HttpAllowedAnyMethod(caps, method, url) ==
    /\ caps.http # None
    /\ url.parses
    /\ url.host # None
    /\ \E i \in DOMAIN caps.http[1].allowlist :
          /\ host_matches_pattern(url.host[1], caps.http[1].allowlist[i].host)
          /\ (caps.http[1].allowlist[i].path_prefix = None
              \/ StartsWith(url.path, caps.http[1].allowlist[i].path_prefix[1]))

http_allowed(caps, method, url) ==
    IF caps.http = None THEN FALSE
    ELSE IF ~url.parses THEN FALSE
    ELSE IF url.host = None THEN FALSE
    ELSE LET host == url.host[1]
             path == url.path
             m    == ToAsciiUppercase(method)
             allowlist == caps.http[1].allowlist
         IN \E i \in DOMAIN allowlist :
               /\ host_matches_pattern(host, allowlist[i].host)
               /\ (allowlist[i].path_prefix = None
                   \/ StartsWith(path, allowlist[i].path_prefix[1]))
               /\ (allowlist[i].methods = <<>>
                   \/ \E j \in DOMAIN allowlist[i].methods :
                         EqIgnoreAsciiCase(allowlist[i].methods[j], m))

ExecAllowedAlways(caps, program, args) == Ok(<<>>)

exec_allowed(caps, program, args) ==
    IF caps.exec = None THEN Err("exec capability not granted", <<>>)
    ELSE LET allowlist == caps.exec[1].allowlist
             subcommand == IF args = <<>> THEN <<>> ELSE args[1]
             found == {i \in DOMAIN allowlist : allowlist[i].program = program}
         IN IF found = {} THEN Err("program not in exec allowlist", <<>>)
            ELSE LET entry == allowlist[SeqMin(found)]
                 IN IF /\ entry.allowed_subcommands # <<>>
                       /\ ~\E j \in DOMAIN entry.allowed_subcommands :
                              entry.allowed_subcommands[j] = subcommand
                    THEN Err("subcommand not allowed for program", subcommand)
                    ELSE IF \E a \in DOMAIN args : \E b \in DOMAIN entry.blocked_flags :
                                args[a] = entry.blocked_flags[b]
                    THEN Err("blocked flag for program",
                             args[SeqMin({a \in DOMAIN args :
                                 \E b \in DOMAIN entry.blocked_flags :
                                     args[a] = entry.blocked_flags[b]})])
                    ELSE Ok(<<>>)

(***************************************************************************)
(* runtime.rs: the secret placeholder engine and output sanitization.      *)
(***************************************************************************)
Opener == <<"{", "{", "S", "E", "C", "R", "E", "T", ":">>

Closer == <<"}", "}">>

Redacted == <<"[", "R", "E", "D", "A", "C", "T", "E", "D", "]">>

\* The loop of resolve_secret_placeholders_with.  result is the working string,
\* search_from the (1-based) position where the scan resumes, resolved the
\* resolved_secrets vector, asked the names handed to resolve_fn so far, and
\* rf the resolver: a function from a name to Ok(plaintext) or an error.
RECURSIVE PlaceholderScan(_, _, _, _, _)
PlaceholderScan(result, search_from, resolved, asked, rf) ==
    LET abs_start == Find(result, Opener, search_from)
    IN IF abs_start = 0
       THEN [res |-> Ok(result), resolved |-> resolved, asked |-> asked]
       ELSE LET after_prefix == abs_start + Len(Opener)
                abs_end == Find(result, Closer, after_prefix)
            IN IF abs_end = 0
               THEN [res |-> Ok(result), resolved |-> resolved, asked |-> asked]
               ELSE LET secret_name == SubSeq(result, after_prefix, abs_end - 1)
                        secret_value == rf[secret_name]
                        placeholder_end == abs_end + Len(Closer)
                    IN IF ~secret_value.ok
                       THEN [res |-> secret_value, resolved |-> resolved,
                             asked |-> Append(asked, secret_name)]
                       ELSE PlaceholderScan(
                                SubSeq(result, 1, abs_start - 1)
                                    \o secret_value.val
                                    \o SubSeq(result, placeholder_end, Len(result)),
                                abs_start + Len(secret_value.val),
                                Append(resolved, secret_value.val),
                                Append(asked, secret_name),
                                rf)

\* The scan applied again to its own output until nothing is resolved
RECURSIVE RescanPlaintext(_, _, _)
RescanPlaintext(input, resolved_secrets, rf) ==
    LET r == PlaceholderScan(input, 1, resolved_secrets, <<>>, rf)
    IN IF ~r.res.ok \/ r.asked = <<>> THEN r
       ELSE LET again == RescanPlaintext(r.res.val, r.resolved, rf)
            IN [again EXCEPT !.asked = r.asked \o @]

\* The scan with an unterminated opener cut off its output
DropUnterminated(input, resolved_secrets, rf) ==
    LET r == PlaceholderScan(input, 1, resolved_secrets, <<>>, rf)
    IN IF r.res.ok /\ Find(r.res.val, Opener, 1) # 0
       THEN [r EXCEPT !.res = Ok(SubSeq(r.res.val, 1, Find(r.res.val, Opener, 1) - 1))]
       ELSE r

resolve_secret_placeholders_with(input, resolved_secrets, rf) ==
    PlaceholderScan(input, 1, resolved_secrets, <<>>, rf)

RECURSIVE SanitizeFrom(_, _, _)
SanitizeFrom(result, secrets, i) ==
    IF i > Len(secrets) THEN result
    ELSE SanitizeFrom(IF secrets[i] # <<>>
                      THEN StrReplace(result, secrets[i], Redacted)
                      ELSE result,
                      secrets, i + 1)

sanitize_output(output, secrets) == SanitizeFrom(output, secrets, 1)

\* Every contiguous substring of s: the names a placeholder in s can carry.
Substrings(s) == {SubSeq(s, i, j) : i \in 1..(Len(s) + 1), j \in 0..Len(s)}

(***************************************************************************)
(* The world of the host-surface specification: the discovered tools with  *)
(* their capability files, the external secret store behind the host-call  *)
(* resolver, and the process environment.                                  *)
(***************************************************************************)
\* Bounds of the model.
MaxCalls == 3

MaxDepth == 2

HOST_SECRET_EXISTS_TARGET == "__lemon.secret.exists"

HOST_SECRET_RESOLVE_TARGET == "__lemon.secret.resolve"

SecretTA == <<"T", "A">>

SecretTB == <<"T", "B">>

SecretPK == <<"P", "K">>

SecretNames == {SecretTA, SecretTB, SecretPK}

\* The secrets the external caller's store holds.
HostSecrets == (SecretTA :> <<"s", "1">>) @@ (SecretPK :> <<"k", "9">>)

\* The variables of the process environment.
ProcessEnv == (SecretTB :> <<"s", "2">>) @@ (SecretPK :> <<"k", "9">>)

Placeholder(name) == Opener \o name \o Closer

RateLimit(n) == Some([requests_per_minute |-> n])

BareCaps == DefaultCapabilities

ChainCaps ==
    [DefaultCapabilities EXCEPT
        !.tool_invoke = Some([aliases |-> [next |-> "chain", leaf |-> "exec",
                                           out |-> "remote",
                                           sec |-> HOST_SECRET_RESOLVE_TARGET],
                              rate_limit |-> RateLimit(2)])]

ExecCaps ==
    [DefaultCapabilities EXCEPT
        !.exec = Some([allowlist |-> << [program |-> "echo",
                                         allowed_subcommands |-> <<>>,
                                         blocked_flags |-> << <<"-", "f">> >>],
                                        [program |-> "printenv",
                                         allowed_subcommands |-> <<>>,
                                         blocked_flags |-> <<>>] >>,
                       rate_limit |-> RateLimit(2)]),
        !.secrets = Some([allowed_names |-> << <<"T", "*">> >>])]

HttpCaps ==
    [DefaultCapabilities EXCEPT
        !.http = Some([allowlist |-> << [host |-> <<"*", ".", "x">>,
                                         path_prefix |-> Some(<<"/", "v">>),
                                         methods |-> << <<"G", "E", "T">> >>] >>,
                       credentials |->
                           [tok |-> [secret_name |-> SecretTA,
                                     location |-> [type |-> "bearer"],
                                     host_patterns |-> <<>>],
                            key |-> [secret_name |-> SecretPK,
                                     location |-> [type |-> "query_param",
                                                   name |-> <<"k">>],
                                     host_patterns |-> <<>>]],
                       max_request_bytes |-> Some(1),
                       max_response_bytes |-> None,
                       rate_limit |-> RateLimit(2)]),
        !.secrets = Some([allowed_names |-> << SecretTA >>]),
        !.workspace = Some([allowed_prefixes |-> << <<"d", "/">> >>])]

\* The artifacts of the tool directory: name -> capability file.
Catalogue ==
    [bare |-> BareCaps, chain |-> ChainCaps, exec |-> ExecCaps, http |-> HttpCaps]

ToolNames == DOMAIN Catalogue

\* The host functions the guest of each artifact imports and calls.
GuestImports ==
    [bare |-> {"tool_invoke", "secret_exists", "workspace_read", "exec_command",
               "http_request"},
     chain |-> {"tool_invoke", "log"},
     exec |-> {"exec_command", "secret_exists", "log"},
     http |-> {"http_request", "workspace_read"}]

(***************************************************************************)
(* State.                                                                  *)
(*  Host surface (runtime.rs):                                             *)
(*   tools     Runtime.tools: name -> PreparedTool                         *)
(*   defaults  Runtime.defaults                                            *)
(*   stack     the stores of the running invocation, outermost first; the  *)
(*             last one is the guest that is executing                     *)
(*   result    the InvokeResult invoke_tool_internal built last            *)
(*   response  the outcome of the last top-level Runtime::invoke           *)
(*   effects   what the running invocation did so far (history): the       *)
(*             number of host calls its guests issued, the host_call       *)
(*             events it emitted, the environment variables it read        *)
(***************************************************************************)
VARIABLES tools, defaults, stack, result, response, effects

(***************************************************************************)
(*  Discovery (runtime.rs, Runtime::discover):                             *)
(*   files       the file system: directory -> stem -> the .wasm artifact  *)
(*               of that stem in that directory                            *)
(*   discovered  the paths of the last discover request and the            *)
(*               DiscoverResult Runtime::discover returned for them        *)
(***************************************************************************)
VARIABLES files, discovered

discVars == <<files, discovered>>

hostVars == <<tools, defaults, stack, result, response, effects, discVars>>

(***************************************************************************)
(*  Output sanitization on its own (runtime.rs, sanitize_output):          *)
(*   stdout_raw   the output of a subprocess                               *)
(*   secret_list  the resolved-secrets list handed to sanitize_output      *)
(*   stdout       the sanitized output, once computed                      *)
(***************************************************************************)
VARIABLES stdout_raw, secret_list, stdout

(***************************************************************************)
(*  The functions of the capability model and of the placeholder engine    *)
(*  on their own (capabilities.rs; runtime.rs,                             *)
(*  resolve_secret_placeholders_with):                                     *)
(*   applied  the function applied and its arguments                       *)
(*   verdict  what the function returned, once computed                    *)
(***************************************************************************)
VARIABLES applied, verdict

pureVars == <<stdout_raw, secret_list, stdout, applied, verdict>>

(***************************************************************************)
(*  Host-call coordinator (main.rs):                                       *)
(*   rx          the requests the stdin thread sent and the main thread    *)
(*               has not received yet                                      *)
(*   closed      the stdin thread ended and dropped the sender             *)
(*   deferred, pending_host_results   the fields of RequestQueue           *)
(*   call_seq    the AtomicU64 behind the call ids                         *)
(*   out         the messages emitted on stdout                            *)
(*   pc          where the main thread is: at recv_next ("idle"), inside   *)
(*               runtime.invoke with the guest running ("invoking"),       *)
(*               inside wait_for_host_call_result ("waiting"), or past the *)
(*               loop ("stopped")                                          *)
(*   request     the id of the invoke request being processed              *)
(*   waiting     the wait in progress: [call_id, expired], expired when    *)
(*               the clock has reached the deadline                        *)
(*   last_wait   the call id and the result of the wait that returned last *)
(*   arrivals    the number of requests sent so far (history): the n-th    *)
(*               request carries id n                                      *)
(*   returned    the ids of the host_call_result requests whose payload a  *)
(*               wait returned, in order (history)                         *)
(***************************************************************************)
VARIABLES rx, closed, deferred, pending_host_results, call_seq, out, pc, request,
          waiting, last_wait, arrivals, returned

(***************************************************************************)
(*  The mutex of the request queue (main.rs, run and                       *)
(*  wait_for_host_call_result):                                            *)
(*   guard  the MutexGuards alive, each the scope that locked; the mutex   *)
(*          is free when there is none                                     *)
(*   in_hand  the request a recv gave and the thread holds                 *)
(***************************************************************************)
VARIABLES guard, in_hand

lockVars == <<guard, in_hand>>

queueVars == <<rx, closed, deferred, pending_host_results, call_seq, out, pc, request,
               waiting, last_wait, arrivals, returned, lockVars>>

vars == <<hostVars, pureVars, queueVars>>

EmptyMap == [x \in {} |-> x]

JsonString(s) == [kind |-> "string", s |-> s]

JsonBool(b) == [kind |-> "bool", b |-> b]

JsonObject(fields) == [kind |-> "object", fields |-> fields]

JsonNull == [kind |-> "null"]

\* json!({ "name": name }).to_string()
NamePayload(name) == JsonObject([name |-> JsonString(name)])

\* RuntimeDefaults::default().max_tool_invoke_depth
DefaultMaxToolInvokeDepth == 4

\* RuntimeDefaults::default()
DefaultRuntimeDefaults ==
    [default_memory_limit |-> 10 * 1024 * 1024,
     default_timeout_ms |-> 60 * 1000,
     default_fuel_limit |-> 10 * 1000 * 1000,
     max_tool_invoke_depth |-> DefaultMaxToolInvokeDepth]

\* The defaults of a discover request that sets max_tool_invoke_depth only
WithDepth(depth) == [DefaultRuntimeDefaults EXCEPT !.max_tool_invoke_depth = depth]

\* The ToolLimits prepare_tool gives a tool under the defaults dflts
ToolLimitsOf(dflts) ==
    [memory_bytes |-> dflts.default_memory_limit,
     fuel |-> dflts.default_fuel_limit,
     timeout_ms |-> dflts.default_timeout_ms,
     max_depth |-> dflts.max_tool_invoke_depth]

\* EPOCH_TICK_INTERVAL, in milliseconds
EPOCH_TICK_INTERVAL == 10

\* (timeout_ms / EPOCH_TICK_INTERVAL.as_millis()).max(1)
EpochTicks(timeout_ms) ==
    IF timeout_ms \div EPOCH_TICK_INTERVAL >= 1 THEN timeout_ms \div EPOCH_TICK_INTERVAL
    ELSE 1

\* runtime.tools.values().next(): the tool a HashMap iterates first is any
\* tool of the snapshot, None for an empty snapshot
FirstTools(snapshot) ==
    IF DOMAIN snapshot = {} THEN {None} ELSE {Some(n) : n \in DOMAIN snapshot}

\* The first tool under one iteration order of the map
OneFirst(snapshot) ==
    IF DOMAIN snapshot = {} THEN None ELSE Some(CHOOSE n \in DOMAIN snapshot : TRUE)

\* The ceiling of the memory limiter as the built-in value
LimiterCeilingBuiltIn(snapshot, first) == 10 * 1024 * 1024

\* The ceiling StoreData::new gives the memory limiter
LimiterCeiling(snapshot, first) ==
    IF first = None THEN 10 * 1024 * 1024
    ELSE snapshot[first[1]].limits.memory_bytes

NoCall == [fn |-> "none"]

\* The history kept with a store: the last host call of its guest with the
\* value returned to it, the HTTP requests sent, the subprocesses spawned, the
\* nested or delegated invocations started, completed and failed, the calls
\* rejected by a counter or by the depth check, and the plaintexts resolved
\* by placeholder substitution and injected as HTTP credentials.
NewHistory ==
    [last |-> NoCall,
     sent |-> 0, spawned |-> 0, started |-> 0, completed |-> 0, failed |-> 0,
     rate_limited |-> [http |-> 0, tool |-> 0, exec |-> 0],
     depth_rejected |-> 0,
     resolved |-> {}, injected |-> {}]

\* StoreData::new with a counter that starts at the depth
NewStoreDataCounting(tool, depth, max_depth, memory_limit, workspace_root, host_invoke) ==
    [tool |-> tool.name,
     capabilities |-> tool.capabilities,
     workspace_root |-> workspace_root,
     depth |-> depth,
     max_depth |-> max_depth,
     host_invoke |-> host_invoke,
     logs |-> <<>>,
     limiter |-> [memory_limit |-> memory_limit],
     http_request_count |-> 0,
     tool_invoke_count |-> 0,
     exec_command_count |-> depth,
     h |-> NewHistory]

\* StoreData::new, for the invocation of `tool` at `depth`
NewStoreData(tool, depth, max_depth, memory_limit, workspace_root, host_invoke) ==
    [tool |-> tool.name,
     capabilities |-> tool.capabilities,
     workspace_root |-> workspace_root,
     depth |-> depth,
     max_depth |-> max_depth,
     host_invoke |-> host_invoke,
     logs |-> <<>>,
     limiter |-> [memory_limit |-> memory_limit],
     http_request_count |-> 0,
     tool_invoke_count |-> 0,
     exec_command_count |-> 0,
     h |-> NewHistory]

\* invoke_tool_internal up to call_execute: the store the guest runs in, or the
\* error that ends the invocation before the guest is called.
invoke_tool_internal(snapshot, tool_name, depth, max_depth, inst_ok, first, workspace_root, host_invoke) ==
    IF tool_name \notin DOMAIN snapshot
    THEN Err("tool not found", tool_name)
    ELSE IF depth > max_depth
    THEN Err("tool execution failed: max tool invoke depth exceeded", <<>>)
    ELSE IF ~inst_ok
    THEN Err("tool instantiation failed", tool_name)
    ELSE Ok(NewStoreData(snapshot[tool_name], depth,
                         snapshot[tool_name].limits.max_depth,
                         LimiterCeiling(snapshot, first), workspace_root, host_invoke)
            @@ [fuel |-> snapshot[tool_name].limits.fuel,
                epoch_deadline |-> EpochTicks(snapshot[tool_name].limits.timeout_ms)])

\* invoke_tool_internal after call_execute returned `guest`: the InvokeResult
BuildInvokeResult(store, guest) ==
    [output_json |-> guest.output,
     error |-> guest.error,
     logs |-> store.logs,
     details |-> [tool |-> store.tool,
                  depth |-> store.depth,
                  http_request_count |-> store.http_request_count,
                  tool_invoke_count |-> store.tool_invoke_count,
                  exec_command_count |-> store.exec_command_count],
     h |-> store.h]

\* the map_err of call_execute with the epoch looked for first
TrapErrorEpochFirst(message) ==
    IF Contains(message, <<"e", "p", "o", "c", "h">>)
    THEN Err("tool execution failed: execution timed out", message)
    ELSE IF Contains(message, <<"f", "u", "e", "l">>)
    THEN Err("tool execution failed: fuel exhausted", message)
    ELSE Err("tool execution failed", message)

\* the map_err of call_execute: the RuntimeError of a trap
TrapError(message) ==
    IF Contains(message, <<"f", "u", "e", "l">>)
    THEN Err("tool execution failed: fuel exhausted", message)
    ELSE IF Contains(message, <<"e", "p", "o", "c", "h">>)
    THEN Err("tool execution failed: execution timed out", message)
    ELSE Err("tool execution failed", message)

(***************************************************************************)
(* The external caller behind host_invoke: what it answers to a host_call  *)
(* event.  `up` is whether it answers at all (it may fail or time out).    *)
(***************************************************************************)
HostInvokeReply(up, target, params) ==
    IF ~up THEN Err("host tool invocation failed", <<>>)
    ELSE IF target = HOST_SECRET_RESOLVE_TARGET
    THEN IF params.fields.name.s \in DOMAIN HostSecrets
         THEN Ok(JsonObject([value |-> JsonString(HostSecrets[params.fields.name.s])]))
         ELSE Err("unknown secret", params.fields.name.s)
    ELSE IF target = HOST_SECRET_EXISTS_TARGET
    THEN Ok(JsonObject([exists |-> JsonBool(params.fields.name.s \in DOMAIN HostSecrets)]))
    ELSE Ok(JsonString(<<"o", "k">>))

\* One emitted host_call event, with the tool whose store emitted it.
HostCall(store, target, params) ==
    [tool |-> store.tool, target |-> target, params |-> params]

\* What a host function did: the store it leaves, the value it returns to the
\* guest, the store of a nested invocation it started (the guest of which runs
\* next), the host_call events it emitted and the environment variables it read.
Outcome(store, ret, push, host_calls, env_reads) ==
    [store |-> store, ret |-> ret, push |-> push,
     host_calls |-> host_calls, env_reads |-> env_reads]

Pending == [ok |-> FALSE, msg |-> "pending", detail |-> <<>>]

\* self.tool_invoke_count += 1
CountToolInvokeTwice(store) == [store EXCEPT !.tool_invoke_count = @ + 2]

CountToolInvoke(store) == [store EXCEPT !.tool_invoke_count = @ + 1]

\* let next_depth = self.depth + 1
NextDepthSame(store) == store.depth

NextDepth(store) == store.depth + 1

\* the comparison of a counter with its limit
OverLimitLate(count, limit) == count > limit + 1

OverLimit(count, limit) == count > limit

\* Host::tool_invoke
tool_invoke(store, snapshot, alias, params_json, inst_ok, up, first) ==
    LET target == resolve_tool_alias(store.capabilities, alias)
        counted == CountToolInvoke(store)
        next_depth == NextDepth(store)
    IN IF target = None
       THEN Outcome(store, Err("unknown tool alias", alias), None, {}, {})
       ELSE IF OverLimit(counted.tool_invoke_count, tool_invoke_limit(store.capabilities))
       THEN Outcome([counted EXCEPT !.h.rate_limited.tool = @ + 1],
                    Err("tool invocation rate limit exceeded", <<>>), None, {}, {})
       ELSE IF next_depth > store.max_depth
       THEN Outcome([counted EXCEPT !.h.depth_rejected = @ + 1],
                    Err("max tool invoke depth exceeded", <<>>), None, {}, {})
       ELSE IF target[1] \in DOMAIN snapshot
       THEN LET r == invoke_tool_internal(snapshot, target[1], next_depth,
                                          store.max_depth, inst_ok, first,
                                          store.workspace_root, store.host_invoke)
            IN IF r.ok
               THEN Outcome([counted EXCEPT !.h.started = @ + 1],
                            Pending, Some(r.val), {}, {})
               ELSE Outcome([counted EXCEPT !.h.failed = @ + 1], r, None, {}, {})
       ELSE LET reply == HostInvokeReply(up, target[1], params_json)
            IN Outcome([counted EXCEPT !.h.started = @ + 1,
                                       !.h.completed = @ + (IF reply.ok THEN 1 ELSE 0),
                                       !.h.failed = @ + (IF reply.ok THEN 0 ELSE 1)],
                       reply, None, {HostCall(store, target[1], params_json)}, {})

Top == stack[Len(stack)]

Running == stack # <<>>

\* The guests of the running invocation may issue one more host call.
CanCall(fn) ==
    /\ Running
    /\ effects.ncalls < MaxCalls
    /\ fn \in GuestImports[Top.tool]

\* The guest of the top store called host function fn and the function did `o`:
\* the store is updated and either the guest resumes with the return value or
\* the guest of the nested invocation runs.
ApplyToStack(fn, arg, o) ==
    /\ stack' =
         IF o.push = None
         THEN [stack EXCEPT ![Len(stack)] =
                  [o.store EXCEPT !.h.last = [fn |-> fn, arg |-> arg, ret |-> o.ret]]]
         ELSE Append([stack EXCEPT ![Len(stack)] =
                         [o.store EXCEPT !.h.last = [fn |-> fn, arg |-> arg, ret |-> o.ret]]],
                     o.push[1])
    /\ effects' = [ncalls |-> effects.ncalls + 1,
                   host_calls |-> effects.host_calls \cup o.host_calls,
                   env_reads |-> effects.env_reads \cup o.env_reads]
    /\ UNCHANGED <<tools, defaults, result, response, discVars, queueVars>>

Apply(fn, arg, o) == ApplyToStack(fn, arg, o) /\ UNCHANGED pureVars

\* Runtime::new(RuntimeDefaults::default())
RuntimeNew ==
    /\ tools = EmptyMap
    /\ defaults = DefaultRuntimeDefaults
    /\ stack = <<>>
    /\ result = None
    /\ response = None
    /\ effects = [ncalls |-> 0, host_calls |-> {}, env_reads |-> {}]

\* No output is being sanitized.
PureIdle ==
    /\ stdout_raw = <<>>
    /\ secret_list = <<>>
    /\ stdout = None
    /\ applied = None
    /\ verdict = None

\* run() up to the loop: the channel and RequestQueue::new
QueueNew ==
    /\ rx = <<>>
    /\ closed = FALSE
    /\ deferred = <<>>
    /\ pending_host_results = EmptyMap
    /\ call_seq = 0
    /\ out = <<>>
    /\ pc = "idle"
    /\ request = None
    /\ waiting = None
    /\ last_wait = None
    /\ arrivals = 0
    /\ returned = <<>>
    /\ guard = <<>>
    /\ in_hand = None

\* No directory holds an artifact and nothing has been discovered.
NoFiles ==
    /\ files = EmptyMap
    /\ discovered = None

HostInit == RuntimeNew /\ PureIdle /\ QueueNew /\ NoFiles

\* Runtime::discover: the defaults are rebound and every artifact is prepared
\* with limits taken from them.
Discover(dflts) ==
    /\ ~Running
    /\ defaults' = dflts
    /\ tools' = [n \in ToolNames |->
                    [name |-> n, capabilities |-> Catalogue[n],
                     limits |-> ToolLimitsOf(defaults')]]
    /\ UNCHANGED <<stack, result, response, effects, discVars, pureVars,
                   queueVars>>

\* What an invoke request brings: the workspace root its context gives
\* (context_workspace_root) and the host_invoke closure made for the request
RequestContext == [workspace_root |-> "cwd", host_invoke |-> "request"]

\* Runtime::invoke: a top-level invocation, at depth 0.  No request is taken
\* while an invocation runs, so the snapshot is the tools map itself.
Invoke(tool_name, inst_ok, first, ctx) ==
    /\ ~Running
    /\ first \in FirstTools(tools)
    /\ LET r == invoke_tool_internal(tools, tool_name, 0,
                                     defaults.max_tool_invoke_depth, inst_ok, first,
                                     ctx.workspace_root, ctx.host_invoke)
       IN /\ stack' = IF r.ok THEN <<r.val>> ELSE <<>>
          /\ response' = IF r.ok THEN None ELSE Some(r)
    /\ result' = None
    /\ effects' = [ncalls |-> 0, host_calls |-> {}, env_reads |-> {}]
    /\ UNCHANGED <<tools, defaults, discVars, pureVars,
                   queueVars>>

GuestResponses ==
    { [output |-> Some(JsonString(<<"o", "k">>)), error |-> None],
      [output |-> None, error |-> Some(<<"b", "a", "d">>)] }

\* The caller's tool_invoke, resumed with the outcome of the nested invocation.
ResumeCaller(ret, done) ==
    LET caller == stack[Len(stack) - 1]
        st == [caller EXCEPT !.h.completed = @ + (IF done THEN 1 ELSE 0),
                             !.h.failed = @ + (IF done THEN 0 ELSE 1),
                             !.h.last = [fn |-> "tool_invoke", arg |-> caller.h.last.arg,
                                         ret |-> ret]]
    IN [SubSeq(stack, 1, Len(stack) - 1) EXCEPT ![Len(stack) - 1] = st]

\* call_execute returns: the InvokeResult is built and handed to the caller, the
\* nested tool_invoke of the store below or the top-level Runtime::invoke.
GuestReturn(guest) ==
    /\ Running
    /\ LET res == BuildInvokeResult(Top, guest)
       IN /\ result' = Some(res)
          /\ IF Len(stack) = 1
             THEN /\ stack' = <<>>
                  /\ response' = Some(Ok(res))
             ELSE /\ stack' = ResumeCaller(
                                IF res.error # None
                                THEN Err("guest error", res.error[1])
                                ELSE Ok(IF res.output_json # None
                                        THEN res.output_json[1] ELSE JsonNull),
                                TRUE)
                  /\ UNCHANGED response
    /\ UNCHANGED <<tools, defaults, effects, discVars, pureVars,
                   queueVars>>

\* call_execute fails: the guest trapped (fuel, epoch deadline, anything else).
GuestTrap(message) ==
    /\ Running
    /\ IF Len(stack) = 1
       THEN /\ stack' = <<>>
            /\ response' = Some(TrapError(message))
       ELSE /\ stack' = ResumeCaller(TrapError(message), FALSE)
            /\ UNCHANGED response
    /\ UNCHANGED <<tools, defaults, result, effects, discVars, pureVars,
                   queueVars>>

(***************************************************************************)
(* Secrets: the host-call resolver with the process-environment fallback.  *)
(***************************************************************************)
parse_host_secret_exists(raw) ==
    IF raw.kind = "bool" THEN Some(raw.b)
    ELSE IF raw.kind = "object"
    THEN IF "exists" \in DOMAIN raw.fields /\ raw.fields.exists.kind = "bool"
         THEN Some(raw.fields.exists.b)
         ELSE None
    ELSE None

parse_host_secret_value(raw) ==
    IF raw.kind = "string" /\ ~TrimIsEmpty(raw.s) THEN Some(raw.s)
    ELSE IF raw.kind = "object"
    THEN IF /\ "value" \in DOMAIN raw.fields
            /\ raw.fields.value.kind = "string"
            /\ ~TrimIsEmpty(raw.fields.value.s)
         THEN Some(raw.fields.value.s)
         ELSE None
    ELSE None

\* StoreData::env_secret
env_secret(name) ==
    IF name \in DOMAIN ProcessEnv /\ ~TrimIsEmpty(ProcessEnv[name])
    THEN Some(ProcessEnv[name])
    ELSE None

env_secret_exists(name) == env_secret(name) # None

\* StoreData::host_secret_exists
host_secret_exists(name, up) ==
    LET reply == HostInvokeReply(up, HOST_SECRET_EXISTS_TARGET, NamePayload(name))
    IN IF reply.ok THEN parse_host_secret_exists(reply.val) ELSE None

\* What the host-call resolver gives for name
SecretFromHost(name, up) ==
    LET reply == HostInvokeReply(up, HOST_SECRET_RESOLVE_TARGET, NamePayload(name))
    IN IF reply.ok THEN parse_host_secret_value(reply.val) ELSE None

\* StoreData::resolve_secret_for_host
resolve_secret_for_host(name, up) ==
    IF SecretFromHost(name, up) # None THEN SecretFromHost(name, up)
    ELSE env_secret(name)

\* The host_call events and environment reads of resolve_secret_for_host(name)
ResolveHostCalls(store, name) ==
    {HostCall(store, HOST_SECRET_RESOLVE_TARGET, NamePayload(name))}

ResolveEnvReads(store, name, up) ==
    IF SecretFromHost(name, up) = None THEN {[tool |-> store.tool, name |-> name]} ELSE {}

\* Host::secret_exists
secret_exists(store, name, up) ==
    IF ~secret_allowed(store.capabilities, name)
    THEN Outcome(store, FALSE, None, {}, {})
    ELSE Outcome(store,
                 IF host_secret_exists(name, up) # None
                 THEN host_secret_exists(name, up)[1]
                 ELSE env_secret_exists(name),
                 None,
                 {HostCall(store, HOST_SECRET_EXISTS_TARGET, NamePayload(name))},
                 IF host_secret_exists(name, up) = None
                 THEN {[tool |-> store.tool, name |-> name]} ELSE {})

\* The closure StoreData::resolve_secret_placeholders hands to the engine, over
\* the names a placeholder of input can carry.
StoreResolver(store, input, up) ==
    [name \in Substrings(input) |->
        IF ~secret_allowed(store.capabilities, name)
        THEN Err("secret not allowed by capabilities", name)
        ELSE IF resolve_secret_for_host(name, up) = None
        THEN Err("secret not found", name)
        ELSE Ok(resolve_secret_for_host(name, up)[1])]

\* StoreData::resolve_secret_placeholders
resolve_secret_placeholders(store, input, resolved_secrets, up) ==
    resolve_secret_placeholders_with(input, resolved_secrets,
                                     StoreResolver(store, input, up))

\* The names among `asked` for which the closure went on to the resolver
AskedAllowed(store, asked) ==
    {asked[i] : i \in {j \in DOMAIN asked : secret_allowed(store.capabilities, asked[j])}}

(***************************************************************************)
(* Host::workspace_read.  fs is what the file system holds at the joined   *)
(* path: a readable file inside the canonical root, a path that leads      *)
(* outside it (a symlink), or nothing readable.                            *)
(***************************************************************************)
FsStates == {"inside", "outside", "unreadable"}

resolve_workspace_path(store, raw, fs) ==
    IF ~workspace_read_allowed(store.capabilities, raw) THEN None
    ELSE IF fs = "unreadable" THEN None
    ELSE IF fs = "inside" THEN Some(raw)
    ELSE None

workspace_read(store, path, fs) ==
    Outcome(store,
            IF resolve_workspace_path(store, path, fs) = None THEN None
            ELSE Some(<<"f">>),
            None, {}, {})

(***************************************************************************)
(* Host::exec_command.  args_json and env_json are what serde_json makes   *)
(* of the two strings: None when they do not parse, else the argument list *)
(* and the environment entries in the iteration order of the map.          *)
(***************************************************************************)
\* the arguments joined by single spaces
RECURSIVE JoinArgs(_)
JoinArgs(args) ==
    IF args = <<>> THEN <<>>
    ELSE IF Len(args) = 1 THEN args[1]
    ELSE args[1] \o <<" ">> \o JoinArgs(Tail(args))

\* The environment of the subprocess: the entries of env over the inherited one
SubprocessEnv(env, name) ==
    IF \E i \in DOMAIN env : env[i].key = name
    THEN Some(env[CHOOSE i \in DOMAIN env : env[i].key = name].value)
    ELSE IF name \in DOMAIN ProcessEnv THEN Some(ProcessEnv[name])
    ELSE None

\* What the allowed programs print: echo its arguments, printenv the variable
\* named by its first argument.
ProgramOutput(program, args, env) ==
    IF program = "echo"
    THEN [exit_code |-> 0, stdout |-> JoinArgs(args) \o <<"\n">>, stderr |-> <<>>]
    ELSE IF program = "printenv" /\ args # <<>> /\ SubprocessEnv(env, args[1]) # None
    THEN [exit_code |-> 0, stdout |-> SubprocessEnv(env, args[1])[1] \o <<"\n">>,
          stderr |-> <<>>]
    ELSE [exit_code |-> 1, stdout |-> <<>>, stderr |-> <<>>]

\* The placeholders of inputs[i..] resolved in order, stopping at the first error
RECURSIVE ResolveEach(_, _, _, _, _)
ResolveEach(store, inputs, i, acc, up) ==
    IF i > Len(inputs) \/ ~acc.res.ok THEN acc
    ELSE LET r == resolve_secret_placeholders(store, inputs[i], acc.resolved, up)
         IN ResolveEach(store, inputs, i + 1,
                        [res |-> IF r.res.ok THEN Ok(Append(acc.res.val, r.res.val))
                                 ELSE r.res,
                         resolved |-> r.resolved,
                         asked |-> acc.asked \o r.asked],
                        up)

SeqRange(q) == {q[i] : i \in DOMAIN q}

\* The resolution of the env values going on after a failed argument
ResolveEnvPastError(store, env, ra, up) ==
    [args |-> IF ra.res.ok THEN ra.res.val ELSE <<>>,
     last |-> ResolveEach(store, [i \in DOMAIN env |-> env[i].value], 1,
                          [res |-> Ok(<<>>), resolved |-> ra.resolved,
                           asked |-> ra.asked], up)]

\* Host::exec_command, the resolution of the env values after that of the
\* arguments ra: the resolved arguments and the state of the resolution at its
\* end (at the first error, when there is one).
ResolveEnv(store, env, ra, up) ==
    IF ~ra.res.ok THEN [args |-> <<>>, last |-> ra]
    ELSE [args |-> ra.res.val,
          last |-> ResolveEach(store, [i \in DOMAIN env |-> env[i].value], 1,
                               [res |-> Ok(<<>>), resolved |-> ra.resolved,
                                asked |-> ra.asked], up)]

\* Host::exec_command from the end of the resolution r: the subprocess and the
\* sanitization of its output with the secrets this call resolved.
ExecSpawn(counted, program, env, r, up, spawn_ok) ==
    LET resolved_secrets == r.last.resolved
        asked == AskedAllowed(counted, r.last.asked)
        calls == UNION {ResolveHostCalls(counted, n) : n \in asked}
        reads == UNION {ResolveEnvReads(counted, n, up) : n \in asked}
        seen == [counted EXCEPT !.h.resolved = @ \cup SeqRange(resolved_secrets)]
    IN IF ~r.last.res.ok
       THEN Outcome(seen, r.last.res, None, calls, reads)
       ELSE LET resolved_env == [i \in DOMAIN env |->
                                    [key |-> env[i].key, value |-> r.last.res.val[i]]]
                output == ProgramOutput(program, r.args, resolved_env)
                spawned == [seen EXCEPT !.h.spawned = @ + 1]
            IN IF ~spawn_ok
               THEN Outcome(spawned, Err("failed to execute", <<>>), None,
                            calls, reads)
               ELSE Outcome(spawned,
                            Ok([exit_code |-> output.exit_code,
                                stdout |-> sanitize_output(output.stdout,
                                                           resolved_secrets),
                                stderr |-> sanitize_output(output.stderr,
                                                           resolved_secrets)]),
                            None, calls, reads)

\* Host::exec_command with the counter step before the policy
exec_command_counted_first(store, program, args_json, env_json, up, spawn_ok) ==
    LET counted == [store EXCEPT !.exec_command_count = @ + 1]
    IN IF args_json = None
       THEN Outcome(store, Err("invalid args JSON", <<>>), None, {}, {})
       ELSE IF env_json = None
       THEN Outcome(store, Err("invalid env JSON", <<>>), None, {}, {})
       ELSE IF ~exec_allowed(store.capabilities, program, args_json[1]).ok
       THEN Outcome(counted, exec_allowed(store.capabilities, program, args_json[1]),
                    None, {}, {})
       ELSE IF OverLimit(counted.exec_command_count, exec_limit(store.capabilities))
       THEN Outcome([counted EXCEPT !.h.rate_limited.exec = @ + 1],
                    Err("exec command rate limit exceeded", <<>>), None, {}, {})
       ELSE ExecSpawn(counted, program, env_json[1],
                      ResolveEnv(store, env_json[1],
                                 ResolveEach(store, args_json[1], 1,
                                             [res |-> Ok(<<>>), resolved |-> <<>>,
                                              asked |-> <<>>], up),
                                 up),
                      up, spawn_ok)

exec_command(store, program, args_json, env_json, up, spawn_ok) ==
    IF args_json = None
    THEN Outcome(store, Err("invalid args JSON", <<>>), None, {}, {})
    ELSE IF env_json = None
    THEN Outcome(store, Err("invalid env JSON", <<>>), None, {}, {})
    ELSE IF ~exec_allowed(store.capabilities, program, args_json[1]).ok
    THEN Outcome(store, exec_allowed(store.capabilities, program, args_json[1]),
                 None, {}, {})
    ELSE LET counted == [store EXCEPT !.exec_command_count = @ + 1]
         IN IF OverLimit(counted.exec_command_count, exec_limit(store.capabilities))
            THEN Outcome([counted EXCEPT !.h.rate_limited.exec = @ + 1],
                         Err("exec command rate limit exceeded", <<>>), None, {}, {})
            ELSE ExecSpawn(counted, program, env_json[1],
                           ResolveEnv(store, env_json[1],
                                      ResolveEach(store, args_json[1], 1,
                                                  [res |-> Ok(<<>>), resolved |-> <<>>,
                                                   asked |-> <<>>], up),
                                      up),
                           up, spawn_ok)

(***************************************************************************)
(* Host::http_request.  A URL is the record Url::parse makes of the string: *)
(* [parses, host, path, query], the query a sequence of [name, value]      *)
(* pairs.  headers is the map serde_json makes of headers_json, body the   *)
(* length of the request body, order the order in which the HashMap of     *)
(* credential mappings is iterated, net what the network does.             *)
(***************************************************************************)
Orderings(S) ==
    {q \in [1..Cardinality(S) -> S] : \A i, j \in DOMAIN q : q[i] = q[j] => i = j}

\* The orders in which http.credentials.values() can yield the mappings
CredentialOrders(caps) ==
    IF caps.http = None THEN {<<>>}
    ELSE Orderings(DOMAIN caps.http[1].credentials)

\* base64 of a token: no character of the token stays next to its neighbour
RECURSIVE Base64(_)
Base64(token) ==
    IF token = <<>> THEN <<>> ELSE <<"=", Head(token)>> \o Base64(Tail(token))

Bearer == <<"B", "e", "a", "r", "e", "r", " ">>

Basic == <<"B", "a", "s", "i", "c", " ">>

Authorization == "authorization"

\* One turn of the loop of apply_http_credentials without the test of the
\* host patterns
InjectCredentialAnyHost(store, mapping, acc, up) ==
    LET secret == resolve_secret_for_host(mapping.secret_name, up)
        asked == [acc EXCEPT
                     !.host_calls = @ \cup ResolveHostCalls(store, mapping.secret_name),
                     !.env_reads = @ \cup ResolveEnvReads(store, mapping.secret_name, up)]
    IN IF ~secret_allowed(store.capabilities, mapping.secret_name) THEN acc
       ELSE IF secret = None THEN asked
       ELSE LET got == [asked EXCEPT !.resolved = @ \cup {secret[1]}]
                loc == mapping.location
            IN IF loc.type = "bearer"
               THEN [got EXCEPT !.headers = (Authorization :> (Bearer \o secret[1])) @@ @]
               ELSE IF loc.type = "basic"
               THEN [got EXCEPT !.headers =
                        (Authorization :>
                            (Basic \o Base64(loc.username \o <<":">> \o secret[1]))) @@ @]
               ELSE IF loc.type = "header"
               THEN [got EXCEPT !.headers = (loc.name :> (loc.prefix \o secret[1])) @@ @]
               ELSE IF loc.type = "query_param"
               THEN [got EXCEPT !.url.query =
                        Append(@, [name |-> loc.name, value |-> secret[1]])]
               ELSE [got EXCEPT !.url.path = StrReplace(@, loc.placeholder, secret[1])]

\* One turn of the loop of apply_http_credentials: req is [url, headers],
\* acc what the turns before it made of the request and what they resolved.
InjectCredential(store, mapping, acc, up) ==
    LET host == acc.url.host[1]
        secret == resolve_secret_for_host(mapping.secret_name, up)
        asked == [acc EXCEPT
                     !.host_calls = @ \cup ResolveHostCalls(store, mapping.secret_name),
                     !.env_reads = @ \cup ResolveEnvReads(store, mapping.secret_name, up)]
    IN IF /\ mapping.host_patterns # <<>>
          /\ ~\E i \in DOMAIN mapping.host_patterns :
                 host_matches_pattern(host, mapping.host_patterns[i])
       THEN acc
       ELSE IF ~secret_allowed(store.capabilities, mapping.secret_name) THEN acc
       ELSE IF secret = None THEN asked
       ELSE LET got == [asked EXCEPT !.resolved = @ \cup {secret[1]}]
                loc == mapping.location
            IN IF loc.type = "bearer"
               THEN [got EXCEPT !.headers = (Authorization :> (Bearer \o secret[1])) @@ @]
               ELSE IF loc.type = "basic"
               THEN [got EXCEPT !.headers =
                        (Authorization :>
                            (Basic \o Base64(loc.username \o <<":">> \o secret[1]))) @@ @]
               ELSE IF loc.type = "header"
               THEN [got EXCEPT !.headers = (loc.name :> (loc.prefix \o secret[1])) @@ @]
               ELSE IF loc.type = "query_param"
               THEN [got EXCEPT !.url.query =
                        Append(@, [name |-> loc.name, value |-> secret[1]])]
               ELSE [got EXCEPT !.url.path = StrReplace(@, loc.placeholder, secret[1])]

RECURSIVE InjectEach(_, _, _, _, _)
InjectEach(store, order, i, acc, up) ==
    IF i > Len(order) THEN acc
    ELSE InjectEach(store, order, i + 1,
                    InjectCredential(store,
                                     store.capabilities.http[1].credentials[order[i]],
                                     acc, up),
                    up)

\* StoreData::apply_http_credentials
apply_http_credentials(store, url, headers, order, up) ==
    LET start == [url |-> url, headers |-> headers, resolved |-> {},
                  host_calls |-> {}, env_reads |-> {}, err |-> None]
    IN IF store.capabilities.http = None THEN start
       ELSE IF url.host = None
       THEN [start EXCEPT !.err = Some(Err("invalid request url host", <<>>))]
       ELSE InjectEach(store, order, 1, start, up)

DefaultMaxRequestBytes == 1048576

DefaultMaxResponseBytes == 10485760

MaxBytesOr(caps, field, dflt) ==
    IF caps.http = None THEN dflt
    ELSE IF caps.http[1][field] = None THEN dflt
    ELSE caps.http[1][field][1]

NetStates == {"down", "plain", "echo"}

RECURSIVE QueryText(_)
QueryText(query) ==
    IF query = <<>> THEN <<>>
    ELSE query[1].name \o <<"=">> \o query[1].value \o QueryText(Tail(query))

\* What the server answers: a fixed page, or a page that reflects the request
\* it received (its authorization header and its query string).
ServerResponse(net, url, headers) ==
    [status |-> 200,
     headers |-> EmptyMap,
     body |-> IF net = "plain" THEN <<"o", "k">>
              ELSE (IF Authorization \in DOMAIN headers
                    THEN headers[Authorization] ELSE <<>>)
                   \o <<"?">> \o QueryText(url.query)]

http_request(store, method, url, headers, body, order, up, net) ==
    IF ~http_allowed(store.capabilities, method, url)
    THEN Outcome(store, Err("http request blocked by allowlist", <<method, url>>),
                 None, {}, {})
    ELSE LET counted == [store EXCEPT !.http_request_count = @ + 1]
             req == apply_http_credentials(store, url, headers, order, up)
             seen == [counted EXCEPT !.h.injected = @ \cup req.resolved]
             sent == [seen EXCEPT !.h.sent = @ + 1]
             reply == ServerResponse(net, req.url, req.headers)
         IN IF OverLimit(counted.http_request_count, http_limit(store.capabilities))
            THEN Outcome([counted EXCEPT !.h.rate_limited.http = @ + 1],
                         Err("http request rate limit exceeded", <<>>), None, {}, {})
            ELSE IF req.err # None
            THEN Outcome(counted, req.err[1], None, {}, {})
            ELSE IF /\ body # None
                    /\ body[1] > MaxBytesOr(store.capabilities, "max_request_bytes",
                                            DefaultMaxRequestBytes)
            THEN Outcome(seen, Err("request body too large", body[1]), None,
                         req.host_calls, req.env_reads)
            ELSE IF net = "down"
            \* reqwest's Display of the error names the URL of the request
            THEN Outcome(sent, Err("http request failed", req.url), None,
                         req.host_calls, req.env_reads)
            ELSE IF Len(reply.body) > MaxBytesOr(store.capabilities,
                                                    "max_response_bytes",
                                                    DefaultMaxResponseBytes)
            THEN Outcome(sent, Err("response body too large", Len(reply.body)), None,
                         req.host_calls, req.env_reads)
            ELSE Outcome(sent,
                         Ok([status |-> reply.status,
                             headers_json |-> reply.headers,
                             body |-> reply.body]),
                         None, req.host_calls, req.env_reads)

Aliases == {"next", "leaf", "out", "sec", "nope"}

GuestParams == {NamePayload(SecretPK)}

GuestToolInvoke(alias, params_json, inst_ok, up, first) ==
    /\ CanCall("tool_invoke")
    /\ first \in FirstTools(tools)
    /\ Apply("tool_invoke", alias,
             tool_invoke(Top, tools, alias, params_json, inst_ok, up, first))

ExecPrograms == {"echo", "printenv", "rm"}

ExecArgsJson ==
    { None, Some(<<>>), Some(<<Placeholder(SecretTA)>>), Some(<<Placeholder(SecretTB)>>),
      Some(<<Placeholder(SecretPK)>>), Some(<< <<"-", "f">> >>), Some(<<SecretTB>>) }

ExecEnvJson ==
    { None, Some(<<>>), Some(<< [key |-> <<"K">>, value |-> Placeholder(SecretTA)] >>) }

GuestExecCommand(program, args_json, env_json, up, spawn_ok) ==
    /\ CanCall("exec_command")
    /\ Apply("exec_command", args_json # None /\ env_json # None,
             exec_command(Top, program, args_json, env_json, up, spawn_ok))

GuestSecretExists(name, up) ==
    /\ CanCall("secret_exists")
    /\ Apply("secret_exists", <<name, up>>, secret_exists(Top, name, up))

WorkspacePaths == { <<>>, <<"d", "/", "a">>, <<"e">>, <<"d", "/", ".", ".">>, <<"/", "d">> }

GuestWorkspaceRead(path, fs) ==
    /\ CanCall("workspace_read")
    /\ Apply("workspace_read", <<>>, workspace_read(Top, path, fs))

HttpMethods == { <<"g", "e", "t">>, <<"P", "O", "S", "T">> }

HttpUrls ==
    { [parses |-> TRUE, host |-> Some(<<"a", ".", "x">>), path |-> <<"/", "v">>,
       query |-> <<>>],
      [parses |-> TRUE, host |-> Some(<<"b", ".", "y">>), path |-> <<"/", "v">>,
       query |-> <<>>],
      [parses |-> FALSE, host |-> None, path |-> <<>>, query |-> <<>>] }

HttpBodies == {None, Some(2)}

GuestHttpRequest(method, url, body, order, up, net) ==
    /\ CanCall("http_request")
    /\ Apply("http_request", <<>>,
             http_request(Top, method, url, EmptyMap, body, order, up, net))

TrapMessages ==
    {<<"n", "o", " ", "f", "u", "e", "l">>, <<"e", "p", "o", "c", "h">>, <<"o", "o", "m">>}

HostNext ==
    \/ \E d \in 0..MaxDepth : Discover(WithDepth(d))
    \/ \E t \in ToolNames \cup {"ghost"}, i \in BOOLEAN : Invoke(t, i, OneFirst(tools), RequestContext)
    \/ \E g \in GuestResponses : GuestReturn(g)
    \/ \E m \in TrapMessages : GuestTrap(m)
    \/ \E a \in Aliases, p \in GuestParams, i \in BOOLEAN, up \in BOOLEAN :
          GuestToolInvoke(a, p, i, up, OneFirst(tools))
    \/ \E n \in SecretNames, up \in BOOLEAN : GuestSecretExists(n, up)
    \/ \E p \in WorkspacePaths, fs \in FsStates : GuestWorkspaceRead(p, fs)
    \/ \E pr \in ExecPrograms, a \in ExecArgsJson, e \in ExecEnvJson,
          up \in BOOLEAN, sp \in BOOLEAN : GuestExecCommand(pr, a, e, up, sp)
    \/ \E m \in HttpMethods, u \in HttpUrls, b \in HttpBodies, up \in BOOLEAN,
          net \in NetStates :
          \E o \in (IF Running THEN CredentialOrders(Top.capabilities) ELSE {}) :
             GuestHttpRequest(m, u, b, o, up, net)

SpecHost == HostInit /\ [][HostNext]_vars

(***************************************************************************)
(* Properties of the host surface and the invocation engine (SpecHost).    *)
(***************************************************************************)
Classes == {"http", "tool", "exec"}

Count(st, c) ==
    IF c = "http" THEN st.http_request_count
    ELSE IF c = "tool" THEN st.tool_invoke_count
    ELSE st.exec_command_count

Limit(st, c) ==
    IF c = "http" THEN http_limit(st.capabilities)
    ELSE IF c = "tool" THEN tool_invoke_limit(st.capabilities)
    ELSE exec_limit(st.capabilities)

Performed(st, c) ==
    IF c = "http" THEN st.h.sent
    ELSE IF c = "tool" THEN st.h.started
    ELSE st.h.spawned

FnOf(c) ==
    IF c = "http" THEN "http_request"
    ELSE IF c = "tool" THEN "tool_invoke"
    ELSE "exec_command"

RateLimitMessage(c) ==
    IF c = "http" THEN "http request rate limit exceeded"
    ELSE IF c = "tool" THEN "tool invocation rate limit exceeded"
    ELSE "exec command rate limit exceeded"

Failed(ret, msg) == ~ret.ok /\ ret.msg = msg

\* C1: a guest whose policy has no section is denied by every gated host
\* function with that function's denial (allowlist error, absence, unknown
\* alias, false, 'exec capability not granted' for well-formed JSON), and its
\* store never counts a call, emits a host_call event, sends a request,
\* starts an invocation or spawns a subprocess.
C1_BarePolicyDenies ==
    \A i \in DOMAIN stack :
        stack[i].capabilities = DefaultCapabilities =>
            LET st == stack[i]
                call == st.h.last
            IN /\ \A c \in Classes : Count(st, c) = 0 /\ Performed(st, c) = 0
               /\ \A e \in effects.host_calls : e.tool # st.tool
               /\ call.fn = "http_request" =>
                      Failed(call.ret, "http request blocked by allowlist")
               /\ call.fn = "workspace_read" => call.ret = None
               /\ call.fn = "tool_invoke" => Failed(call.ret, "unknown tool alias")
               /\ call.fn = "secret_exists" => call.ret = FALSE
               /\ (call.fn = "exec_command" /\ call.arg) =>
                      Failed(call.ret, "exec capability not granted")

C1_Witness ==
    \E i \in DOMAIN stack :
        /\ stack[i].capabilities = DefaultCapabilities
        /\ effects.ncalls >= 2
        /\ stack[i].h.last.fn = "exec_command"
        /\ stack[i].h.last.arg
        /\ Failed(stack[i].h.last.ret, "exec capability not granted")

\* One step of a store, for class c: when the counter moves it moves by one,
\* on a call of that class; up to the limit the call passes the counter check,
\* beyond it the call returns the class's rate-limit error and performs nothing.
CounterStep(a, b, c) ==
    Count(b, c) # Count(a, c) =>
        /\ Count(b, c) = Count(a, c) + 1
        /\ b.h.last.fn = FnOf(c)
        /\ IF Count(b, c) <= Limit(b, c)
           THEN /\ ~Failed(b.h.last.ret, RateLimitMessage(c))
                /\ b.h.rate_limited[c] = 0
           ELSE /\ Failed(b.h.last.ret, RateLimitMessage(c))
                /\ Performed(b, c) = Performed(a, c)
                /\ Len(stack') = Len(stack)
                /\ effects'.host_calls = effects.host_calls
                /\ b.h.rate_limited[c] = Count(b, c) - Limit(b, c)

\* C2: within one invocation and for each gated class with limit L, the
\* first L calls that pass the policy check pass the counter check, and each
\* later one returns the class's rate-limit error without performing the action.
C2_RateLimit ==
    [][\A i \in DOMAIN stack \cap DOMAIN stack' : \A c \in Classes :
           CounterStep(stack[i], stack'[i], c)]_vars

C2_Witness ==
    \E i \in DOMAIN stack :
        /\ stack[i].exec_command_count = exec_limit(stack[i].capabilities) + 1
        /\ stack[i].h.spawned = exec_limit(stack[i].capabilities)
        /\ stack[i].h.last.fn = "exec_command"
        /\ Failed(stack[i].h.last.ret, "exec command rate limit exceeded")

DepthMessage == "max tool invoke depth exceeded"

\* The last call of st was a tool_invoke with an alias the policy resolves
AliasCallAt(st) ==
    /\ st.h.last.fn = "tool_invoke"
    /\ resolve_tool_alias(st.capabilities, st.h.last.arg) # None

\* C3 (as amended): no store exists at a depth greater than
\* max_tool_invoke_depth, the store at position i of the chain runs at depth
\* i - 1, and a store at depth max_tool_invoke_depth starts no nested or
\* delegated invocation: its tool_invoke with a resolvable alias returns the
\* depth error, or the rate-limit error once its counter exceeds the limit.
C3_DepthBounded ==
    \A i \in DOMAIN stack :
        LET st == stack[i]
        IN /\ st.depth = i - 1
           /\ st.max_depth = defaults.max_tool_invoke_depth
           /\ st.depth <= st.max_depth
           /\ st.depth = st.max_depth =>
                 /\ i = Len(stack)
                 /\ st.h.started = 0
                 /\ AliasCallAt(st) =>
                       \/ Failed(st.h.last.ret, DepthMessage)
                       \/ /\ Failed(st.h.last.ret, RateLimitMessage("tool"))
                          /\ st.tool_invoke_count > tool_invoke_limit(st.capabilities)

C3_Witness ==
    \E i \in DOMAIN stack :
        /\ i >= 2
        /\ stack[i].depth = stack[i].max_depth
        /\ AliasCallAt(stack[i])
        /\ Failed(stack[i].h.last.ret, DepthMessage)

\* C3 as stated: every tool_invoke with a resolvable alias issued at depth
\* max_tool_invoke_depth returns the depth error.
C3_AlwaysDepthError ==
    \A i \in DOMAIN stack :
        (stack[i].depth = stack[i].max_depth /\ AliasCallAt(stack[i])) =>
            Failed(stack[i].h.last.ret, DepthMessage)

\* The tool_invoke calls of a store that resolved their alias: those rejected
\* by the counter or by the depth check, those whose invocation completed or
\* failed, and the one in flight.
Counted(h, in_flight) ==
    h.rate_limited.tool + h.depth_rejected + h.completed + h.failed
        + (IF in_flight THEN 1 ELSE 0)

\* C4 (as amended): tool_invoke_count of every store, and of the details of
\* every InvokeResult, is the number of tool_invoke calls whose alias
\* resolved, the calls rejected by the rate limit or the depth check included.
C4_CountsResolvedCalls ==
    /\ \A i \in DOMAIN stack :
          stack[i].tool_invoke_count = Counted(stack[i].h, i < Len(stack))
    /\ result # None =>
          result[1].details.tool_invoke_count = Counted(result[1].h, FALSE)

C4_Witness ==
    /\ result # None
    /\ result[1].details.depth >= 1
    /\ result[1].h.depth_rejected >= 1
    /\ result[1].details.tool_invoke_count = result[1].h.depth_rejected

\* C4 as stated: after an invocation in which no call failed or was rate
\* limited, tool_invoke_count is the number of invocations carried out to
\* completion (a call rejected by the depth check is not counted).
C4_CountsCompleted ==
    (result # None /\ result[1].h.failed = 0 /\ result[1].h.rate_limited.tool = 0) =>
        result[1].details.tool_invoke_count = result[1].h.completed

Clean(text, secrets) == \A p \in secrets : p # <<>> => ~Contains(text, p)

\* C6 as stated: the output of an exec_command call holds no plaintext that
\* an earlier exec_command call of the same invocation resolved.
C6_EarlierSecretsRedacted ==
    [][\A i \in DOMAIN stack \cap DOMAIN stack' :
           (/\ stack'[i].exec_command_count = stack[i].exec_command_count + 1
            /\ stack'[i].h.last.ret.ok) =>
               /\ Clean(stack'[i].h.last.ret.val.stdout, stack[i].h.resolved)
               /\ Clean(stack'[i].h.last.ret.val.stderr, stack[i].h.resolved)]_vars

\* C7 as stated, for http_request: the response handed to the guest holds no
\* plaintext that credential injection resolved in the invocation.
C7_NoCredentialInResponse ==
    \A i \in DOMAIN stack :
        (stack[i].h.last.fn = "http_request" /\ stack[i].h.last.ret.ok) =>
            Clean(stack[i].h.last.ret.val.body, stack[i].h.injected)

SecretTargets == {HOST_SECRET_RESOLVE_TARGET, HOST_SECRET_EXISTS_TARGET}

\* C8 as stated: every host_call event to the secret resolver names a secret
\* that the policy of the tool that emitted it allows.
C8_ResolverAskedOnlyAllowed ==
    \A e \in effects.host_calls :
        e.target \in SecretTargets =>
            secret_allowed(Catalogue[e.tool], e.params.fields.name.s)

(***************************************************************************)
(* Output sanitization checked on its own (SpecPure): the subprocess       *)
(* output and the resolved-secrets list are any text and any list of       *)
(* plaintexts within the bounds.                                           *)
(***************************************************************************)
MaxTextLen == 3

MaxSecretLen == 2

MaxSecrets == 2

\* The characters of the texts: one that occurs in the token, one that does not
TextChars == {"R", "a"}

SeqsUpTo(S, n) == UNION {[1..k -> S] : k \in 0..n}

PureInit ==
    /\ stdout_raw \in SeqsUpTo(TextChars, MaxTextLen)
    /\ secret_list \in SeqsUpTo(SeqsUpTo(TextChars, MaxSecretLen), MaxSecrets)
    /\ stdout = None
    /\ applied = None
    /\ verdict = None
    /\ RuntimeNew
    /\ QueueNew
    /\ NoFiles

\* let stdout = sanitize_output(&stdout_raw, &resolved_secrets)
Sanitize ==
    /\ stdout = None
    /\ stdout' = Some(sanitize_output(stdout_raw, secret_list))
    /\ UNCHANGED <<stdout_raw, secret_list, applied, verdict, hostVars, queueVars>>

PureNext == Sanitize

SpecPure == PureInit /\ [][PureNext]_vars

\* C5 as stated: the sanitized output holds no occurrence of any non-empty
\* plaintext of the resolved-secrets list, whatever the secrets are.
C5_NoPlaintextInOutput ==
    stdout # None => Clean(stdout[1], SeqRange(secret_list))

(***************************************************************************)
(* The host-call coordinator (main.rs, SpecQueue).  The stdin thread sends  *)
(* the requests it parses into the channel; the main thread is the only    *)
(* one that receives, and a guest runs on it, so that each turn of a loop  *)
(* is one step.  A call id "host_call_{seq}" is the number seq.  Time is   *)
(* the deadline of the wait in progress being reached or not; it passes    *)
(* only while the waiting thread spins or blocks.                          *)
(***************************************************************************)
MaxInbound == 3

MaxHostCalls == 2

PROTOCOL_VERSION == 1

\* The requests the external caller can send as its n-th line.  A
\* host_call_result names any call id; its payload is a success without
\* output or a failure with an error text.
Requests(n) ==
    {[kind |-> "hello", id |-> n, version |-> v] : v \in {Some(PROTOCOL_VERSION), Some(2)}}
    \cup {[kind |-> k, id |-> n] : k \in {"discover", "invoke", "shutdown"}}
    \cup {[kind |-> "host_call_result", id |-> n, call_id |-> c, ok |-> b,
           output_json |-> None,
           error |-> IF b THEN None ELSE Some("boom")] :
             c \in 1..MaxHostCalls, b \in BOOLEAN}

ResponseOk(id, value) == [type |-> "response", id |-> id, ok |-> TRUE, result |-> value]

ResponseErr(id, error) == [type |-> "response", id |-> id, ok |-> FALSE, error |-> error]

HostCallEvent(request_id, call_id) ==
    [type |-> "event", event |-> "host_call", request_id |-> request_id,
     call_id |-> call_id]

\* The HostCallResultPayload of a host_call_result request, with the request
\* it came from (history).
PayloadOf(req) ==
    [ok |-> req.ok, output_json |-> req.output_json, error |-> req.error,
     from |-> [id |-> req.id, call_id |-> req.call_id]]

host_result_payload_to_result(payload) ==
    IF payload.ok
    THEN Ok(IF payload.output_json # None THEN payload.output_json[1] ELSE "null")
    ELSE Err(IF payload.error # None THEN payload.error[1]
             ELSE "host tool invocation failed", <<>>)

\* RequestQueue::store_host_result
store_host_result(results, call_id, payload) ==
    [k \in DOMAIN results \cup {call_id} |->
        IF k = call_id THEN payload ELSE results[k]]

\* RequestQueue::take_host_result: the payload removed, if any, and the map left
TakeAnyHostResult(results, call_id) ==
    IF DOMAIN results = {} THEN [payload |-> None, rest |-> results]
    ELSE LET k == CHOOSE k \in DOMAIN results : TRUE
         IN [payload |-> Some(results[k]),
             rest |-> [j \in DOMAIN results \ {k} |-> results[j]]]

take_host_result(results, call_id) ==
    IF call_id \in DOMAIN results
    THEN [payload |-> Some(results[call_id]),
          rest |-> [j \in DOMAIN results \ {call_id} |-> results[j]]]
    ELSE [payload |-> None, rest |-> results]

\* RequestQueue::stash_deferred
StashDropped(queue, item) == queue

stash_deferred(queue, item) == Append(queue, item)

QueueInit == QueueNew /\ RuntimeNew /\ PureIdle /\ NoFiles

\* The stdin thread parses a line and sends the request.  `during` is the
\* call a wait was in progress for, its deadline not reached (history).
Arrive(req) ==
    /\ ~closed
    /\ pc # "stopped"
    /\ arrivals < MaxInbound
    /\ req \in Requests(arrivals + 1)
    /\ arrivals' = arrivals + 1
    /\ rx' = Append(rx, [req |-> req,
                         during |-> IF waiting # None /\ ~waiting[1].expired
                                    THEN Some(waiting[1].call_id) ELSE None])
    /\ UNCHANGED <<closed, deferred, pending_host_results, call_seq, out, pc, request,
                   waiting, last_wait, returned, hostVars, pureVars, lockVars>>

\* The stdin thread reads end of file and ends: the sender is dropped.
Close ==
    /\ ~closed
    /\ closed' = TRUE
    /\ UNCHANGED <<rx, deferred, pending_host_results, call_seq, out, pc, request,
                   waiting, last_wait, arrivals, returned, hostVars, pureVars, lockVars>>

\* RequestQueue::recv_next has a request to return: the head of deferred, or
\* else the head of the channel.
CanRecv == deferred # <<>> \/ rx # <<>>

Received == IF deferred # <<>> THEN Head(deferred) ELSE Head(rx)

\* The main loop takes the request `Received` and emits `messages`.
MainTake(messages) ==
    /\ deferred' = IF deferred # <<>> THEN Tail(deferred) ELSE deferred
    /\ rx' = IF deferred # <<>> THEN rx ELSE Tail(rx)
    /\ out' = out \o messages
    /\ UNCHANGED <<closed, call_seq, waiting, last_wait, arrivals, returned,
                   hostVars, pureVars, lockVars>>

MainHello ==
    /\ pc = "idle" /\ CanRecv /\ Received.req.kind = "hello"
    /\ LET req == Received.req
       IN IF req.version # None /\ req.version[1] # PROTOCOL_VERSION
          THEN MainTake(<<ResponseErr(req.id, "unsupported protocol version")>>)
          ELSE MainTake(<<ResponseOk(req.id, "version")>>)
    /\ UNCHANGED <<pc, request, pending_host_results>>

MainDiscover ==
    /\ pc = "idle" /\ CanRecv /\ Received.req.kind = "discover"
    /\ MainTake(<<ResponseOk(Received.req.id, "discovered")>>)
    /\ UNCHANGED <<pc, request, pending_host_results>>

\* Request::Invoke up to the call of runtime.invoke: the guest runs.
MainInvoke ==
    /\ pc = "idle" /\ CanRecv /\ Received.req.kind = "invoke"
    /\ MainTake(<<>>)
    /\ pc' = "invoking"
    /\ request' = Some(Received.req.id)
    /\ UNCHANGED pending_host_results

MainHostCallResult ==
    /\ pc = "idle" /\ CanRecv /\ Received.req.kind = "host_call_result"
    /\ pending_host_results' =
          store_host_result(pending_host_results, Received.req.call_id,
                            PayloadOf(Received.req))
    /\ MainTake(<<ResponseOk(Received.req.id, "accepted")>>)
    /\ UNCHANGED <<pc, request>>

MainShutdownContinues ==
    /\ pc = "idle" /\ CanRecv /\ Received.req.kind = "shutdown"
    /\ MainTake(<<ResponseOk(Received.req.id, "stopped")>>)
    /\ UNCHANGED <<pc, request, pending_host_results>>

\* Request::Shutdown: the response, then `break`
MainShutdown ==
    /\ pc = "idle" /\ CanRecv /\ Received.req.kind = "shutdown"
    /\ MainTake(<<ResponseOk(Received.req.id, "stopped")>>)
    /\ pc' = "stopped"
    /\ UNCHANGED <<request, pending_host_results>>

\* recv_next returns None: the channel is empty and disconnected.
MainClosed ==
    /\ pc = "idle" /\ ~CanRecv /\ closed
    /\ pc' = "stopped"
    /\ UNCHANGED <<rx, closed, deferred, pending_host_results, call_seq, out, request,
                   waiting, last_wait, arrivals, returned, hostVars, pureVars, lockVars>>

\* call_seq.fetch_add(1) + 1
AllocCallIdFixed(seq) == 1

AllocCallId(seq) == seq + 1

\* The host_invoke closure up to the wait: a guest of the running invocation,
\* the top-level one or one it invoked through tool_invoke (nested; every
\* store of the invocation holds a clone of the one closure), makes a host
\* call, the call id is allocated and the event emitted.
GuestHostInvoke(nested) ==
    /\ pc = "invoking"
    /\ call_seq < MaxHostCalls
    /\ call_seq' = AllocCallId(call_seq)
    /\ out' = Append(out, HostCallEvent(request[1], call_seq'))
    /\ waiting' = Some([call_id |-> call_seq', expired |-> FALSE, nested |-> nested])
    /\ pc' = "waiting"
    /\ UNCHANGED <<rx, closed, deferred, pending_host_results, request, last_wait,
                   arrivals, returned, hostVars, pureVars, lockVars>>

\* runtime.invoke returns and the response of the invoke request is emitted.
InvokeDone(ok) ==
    /\ pc = "invoking"
    /\ out' = Append(out, IF ok THEN ResponseOk(request[1], "result")
                          ELSE ResponseErr(request[1], "error"))
    /\ pc' = "idle"
    /\ request' = None
    /\ UNCHANGED <<rx, closed, deferred, pending_host_results, call_seq, waiting,
                   last_wait, arrivals, returned, hostVars, pureVars, lockVars>>

Target == waiting[1].call_id

TimedOut == "timed out waiting for host_call_result"

InputClosed == "sidecar input closed while waiting for host_call_result"

\* wait_for_host_call_result returns res to the guest; payload is the payload
\* it returns, if it returns one.
WaitReturn(res, payload, via) ==
    /\ pc' = "invoking"
    /\ waiting' = None
    /\ last_wait' = Some([call_id |-> Target, res |-> res])
    /\ returned' = IF payload = None THEN returned
                   ELSE Append(returned, [waiter |-> Target, via |-> via,
                                          from |-> payload[1].from])
    /\ UNCHANGED <<closed, call_seq, out, request, arrivals, hostVars, pureVars, lockVars>>

WaitContinue ==
    UNCHANGED <<closed, call_seq, out, pc, request, waiting, last_wait, arrivals,
                returned, hostVars, pureVars, lockVars>>

\* The match of the loop on the request it received
WaitHandle(item) ==
    IF item.req.kind = "host_call_result"
    THEN IF item.req.call_id = Target
         THEN /\ WaitReturn(host_result_payload_to_result(PayloadOf(item.req)),
                            Some(PayloadOf(item.req)), "channel")
              /\ UNCHANGED pending_host_results
         ELSE /\ pending_host_results' =
                    store_host_result(pending_host_results, item.req.call_id,
                                      PayloadOf(item.req))
              /\ WaitContinue
    ELSE /\ WaitContinue
         /\ UNCHANGED pending_host_results

\* A turn of the loop that finds the result in the map
WaitTake ==
    /\ pc = "waiting"
    /\ take_host_result(pending_host_results, Target).payload # None
    /\ LET taken == take_host_result(pending_host_results, Target)
       IN /\ pending_host_results' = taken.rest
          /\ WaitReturn(host_result_payload_to_result(taken.payload[1]),
                        taken.payload, "map")
    /\ UNCHANGED <<rx, deferred>>

\* A turn of the loop that finds the deadline reached
WaitTimeout ==
    /\ pc = "waiting"
    /\ take_host_result(pending_host_results, Target).payload = None
    /\ waiting[1].expired
    /\ WaitReturn(Err(TimedOut, Target), None, "none")
    /\ UNCHANGED <<rx, deferred, pending_host_results>>

\* A turn of the loop in which recv_next_timeout pops the head of deferred: a
\* request of another kind is stashed again, at the back.
WaitDeferred ==
    /\ pc = "waiting"
    /\ take_host_result(pending_host_results, Target).payload = None
    /\ ~waiting[1].expired
    /\ deferred # <<>>
    /\ deferred' = IF Head(deferred).req.kind = "host_call_result"
                   THEN Tail(deferred)
                   ELSE stash_deferred(Tail(deferred), Head(deferred))
    /\ WaitHandle(Head(deferred))
    /\ UNCHANGED rx

\* A turn of the loop in which recv_next_timeout takes a request from the channel
WaitChannel ==
    /\ pc = "waiting"
    /\ take_host_result(pending_host_results, Target).payload = None
    /\ ~waiting[1].expired
    /\ deferred = <<>>
    /\ rx # <<>>
    /\ rx' = Tail(rx)
    /\ deferred' = IF Head(rx).req.kind = "host_call_result"
                   THEN deferred
                   ELSE stash_deferred(deferred, Head(rx))
    /\ WaitHandle(Head(rx))

\* A turn of the loop in which recv_timeout gives an error, the channel being
\* empty: it is disconnected, or the remaining time runs out while the thread
\* is blocked.  `.ok()` makes None of either.
WaitNone ==
    /\ pc = "waiting"
    /\ take_host_result(pending_host_results, Target).payload = None
    /\ ~waiting[1].expired
    /\ deferred = <<>>
    /\ rx = <<>>
    /\ WaitReturn(Err(InputClosed, Target), None, "none")
    /\ UNCHANGED <<rx, deferred, pending_host_results>>

\* The deadline is reached while the waiting thread spins on deferred requests.
Expire ==
    /\ pc = "waiting"
    /\ ~waiting[1].expired
    /\ take_host_result(pending_host_results, Target).payload = None
    /\ deferred # <<>>
    /\ waiting' = Some([waiting[1] EXCEPT !.expired = TRUE])
    /\ UNCHANGED <<rx, closed, deferred, pending_host_results, call_seq, out, pc,
                   request, last_wait, arrivals, returned, hostVars, pureVars, lockVars>>

QueueNext ==
    \/ \E n \in 1..MaxInbound : \E req \in Requests(n) : Arrive(req)
    \/ Close
    \/ MainHello
    \/ MainDiscover
    \/ MainInvoke
    \/ MainHostCallResult
    \/ MainShutdown
    \/ MainClosed
    \/ \E nested \in BOOLEAN : GuestHostInvoke(nested)
    \/ \E ok \in BOOLEAN : InvokeDone(ok)
    \/ WaitTake
    \/ WaitTimeout
    \/ WaitDeferred
    \/ WaitChannel
    \/ WaitNone
    \/ Expire

SpecQueue == QueueInit /\ [][QueueNext]_vars

\* C9 as stated: a wait does not give up (timed out, input closed) while the
\* channel holds a host_call_result for its call id that arrived before the
\* deadline.
C9_EarlyReplyReturned ==
    (/\ pc = "invoking"
     /\ last_wait # None
     /\ ~last_wait[1].res.ok
     /\ last_wait[1].res.msg \in {TimedOut, InputClosed}) =>
        ~\E i \in DOMAIN rx :
            /\ rx[i].req.kind = "host_call_result"
            /\ rx[i].req.call_id = last_wait[1].call_id
            /\ rx[i].during = Some(last_wait[1].call_id)

\* C10: a wait returns only the payload of a host_call_result that carries its
\* own call id, every stored payload is stored under the call id it carries,
\* and no payload is returned twice.
C10_OwnResultOnce ==
    /\ \A i \in DOMAIN returned : returned[i].from.call_id = returned[i].waiter
    /\ \A i, j \in DOMAIN returned :
          returned[i].from.id = returned[j].from.id => i = j
    /\ \A c \in DOMAIN pending_host_results : pending_host_results[c].from.call_id = c

C10_Witness ==
    /\ \E i \in DOMAIN returned : returned[i].via = "map"
    /\ \E c \in DOMAIN pending_host_results : TRUE

\* C11 as stated: a wait returns the 'sidecar input closed' error only when
\* the inbound channel has closed; while it stays open the wait ends with the
\* reply or with the timeout error.
C11_ClosedErrorOnlyWhenClosed ==
    (last_wait # None /\ ~last_wait[1].res.ok /\ last_wait[1].res.msg = InputClosed)
        => closed

\* C12 as stated: whenever a host_call_result request is taken from the
\* channel, by the main loop or by a waiting guest thread, the response
\* {accepted: true} carrying its id is emitted.
C12_EveryResultAcked ==
    [][(/\ deferred = <<>>
        /\ rx # <<>>
        /\ Head(rx).req.kind = "host_call_result"
        /\ rx' = Tail(rx))
          => out' = Append(out, ResponseOk(Head(rx).req.id, "accepted"))]_vars

IsAck(m) == m.type = "response" /\ m.ok /\ m.result = "accepted"

\* The responses to hello, discover, invoke and shutdown requests
IsAnswer(m) == m.type = "response" /\ ~IsAck(m)

NotResult(item) == item.req.kind # "host_call_result"

\* The requests other than host_call_result that wait to be processed, those
\* stashed by a waiting guest thread first
Queued == SelectSeq(deferred \o rx, NotResult)

Answers == SelectSeq(out, IsAnswer)

\* One step seen from the requests that wait: they stay, one arrives at the
\* back, or the idle main loop takes the first and answers it (an invoke is
\* answered when the invocation ends).
QueuedStep ==
    /\ \/ Queued' = Queued
       \/ /\ Len(Queued') = Len(Queued) + 1
          /\ SubSeq(Queued', 1, Len(Queued)) = Queued
          /\ arrivals' = arrivals + 1
          /\ Queued'[Len(Queued')].req.id = arrivals'
       \/ /\ Queued # <<>>
          /\ Queued' = Tail(Queued)
          /\ pc = "idle"
          /\ IF Head(Queued).req.kind = "invoke"
             THEN pc' = "invoking" /\ request' = Some(Head(Queued).req.id) /\ out' = out
             ELSE /\ Len(out') = Len(out) + 1
                  /\ SubSeq(out', 1, Len(out)) = out
                  /\ IsAnswer(out'[Len(out')])
                  /\ out'[Len(out')].id = Head(Queued).req.id
    /\ \A i, j \in DOMAIN Queued' : i < j => Queued'[i].req.id < Queued'[j].req.id
    /\ (pc \in {"invoking", "waiting"} /\ pc' = "idle") =>
          /\ Len(out') = Len(out) + 1
          /\ IsAnswer(out'[Len(out')])
          /\ out'[Len(out')].id = request[1]
    /\ Answers' # Answers =>
          /\ Len(Answers') = Len(Answers) + 1
          /\ \A j \in DOMAIN Answers : Answers[j].id < Answers'[Len(Answers')].id

\* C13 (as amended): a request other than host_call_result that arrives
\* while an invocation runs or waits is kept, once, in arrival order; it is
\* taken by the main loop only, after the response of that invocation and
\* before every request that arrived after it, and answered then, unless the
\* loop has exited on a shutdown that arrived before it; the responses to
\* hello, discover, invoke and shutdown requests are emitted in arrival order.
C13_DeferredInOrder == [][QueuedStep]_vars

\* A request was stashed during a wait, a later one is in the channel, and the
\* response of the invocation has been emitted.
C13_Witness ==
    /\ pc = "idle"
    /\ deferred # <<>>
    /\ \E i \in DOMAIN rx : NotResult(rx[i])
    /\ out # <<>>
    /\ IsAnswer(out[Len(out)])
    /\ out[Len(out)].id < Head(deferred).req.id

\* C13 as stated: no request other than host_call_result that arrived during
\* a wait is left unprocessed when the main loop has exited.
C13_NeverLost ==
    pc = "stopped" =>
        ~\E i \in DOMAIN rx : NotResult(rx[i]) /\ rx[i].during # None

\* C14: the call ids of the host_call events grow strictly along the output,
\* and the request_id of an event is the id of the invoke request in progress
\* when it is emitted: the responses before it are those of earlier requests,
\* and the response to that request, an invoke response, comes after it or the
\* invocation is still in progress.
C14_CallIdsIncrease ==
    \A i \in DOMAIN out :
        out[i].type = "event" =>
            /\ \A j \in 1..(i - 1) :
                  /\ out[j].type = "event" => out[j].call_id < out[i].call_id
                  /\ IsAnswer(out[j]) => out[j].id < out[i].request_id
            /\ LET after == {j \in DOMAIN out :
                                IsAnswer(out[j]) /\ out[j].id = out[i].request_id}
               IN IF after = {}
                  THEN pc \in {"invoking", "waiting"} /\ request = Some(out[i].request_id)
                  ELSE \A j \in after :
                          /\ j > i
                          /\ IF out[j].ok THEN out[j].result = "result"
                             ELSE out[j].error = "error"

\* A nested invocation of a second invoke request has made a host call, after
\* a host call of an earlier invoke request.
C14_Witness ==
    /\ waiting # None
    /\ waiting[1].nested
    /\ out[Len(out)].type = "event"
    /\ out[Len(out)].request_id = request[1]
    /\ \E i \in DOMAIN out :
          out[i].type = "event" /\ out[i].request_id < request[1]

IsStopped(m) == m.type = "response" /\ m.ok /\ m.result = "stopped"

\* One step seen from the shutdown: the idle main loop that takes a shutdown
\* request emits {stopped: true} for it and exits; the loop exits on nothing
\* else but the end of the input, and never while an invocation runs or
\* waits; once it has exited nothing is taken, stored or emitted.
ShutdownStep ==
    /\ pc = "stopped" =>
          /\ UNCHANGED <<deferred, out, pc, pending_host_results, call_seq, request>>
          /\ Len(rx') >= Len(rx)
    /\ (pc # "stopped" /\ pc' = "stopped") =>
          /\ pc = "idle"
          /\ request = None
          /\ IF CanRecv
             THEN /\ Received.req.kind = "shutdown"
                  /\ out' = Append(out, ResponseOk(Received.req.id, "stopped"))
             ELSE closed /\ out' = out
    /\ (/\ pc = "idle" /\ CanRecv /\ Received.req.kind = "shutdown"
        /\ Len(Queued') < Len(Queued)) =>
          /\ pc' = "stopped"
          /\ out' = Append(out, ResponseOk(Received.req.id, "stopped"))
    /\ (out' # out /\ IsStopped(out'[Len(out')])) =>
          /\ pc' = "stopped"
          /\ \A j \in DOMAIN out : IsAnswer(out[j]) => out[j].id < out'[Len(out')].id

\* C15: a shutdown request is answered with {stopped: true} and ends the main
\* loop; nothing that arrived after it is taken or answered; a shutdown that
\* arrives during an invocation is taken after the response of the invocation.
C15_ShutdownStops == [][ShutdownStep]_vars

\* The loop has exited on a shutdown that was stashed during an invocation
\* with a host call, and a request that arrived after it, during the wait,
\* is still in the channel.
C15_Witness ==
    /\ pc = "stopped"
    /\ Len(out) >= 3
    /\ IsStopped(out[Len(out)])
    /\ IsAnswer(out[Len(out) - 1])
    /\ \E i \in DOMAIN out : out[i].type = "event"
    /\ \E i \in DOMAIN rx : rx[i].during # None

(***************************************************************************)
(* The discovery pipeline (runtime.rs, SpecDiscover).  A path of the        *)
(* request names a directory of `files`, something that is not a directory *)
(* or nothing at all; a stem, a title and a tool name are sequences of     *)
(* characters; an artifact is what preparing it meets: whether it          *)
(* compiles, its sibling capabilities file, whether it instantiates, and   *)
(* what its description() and schema() exports return.                     *)
(***************************************************************************)
MaxPaths == 2

\* str::trim
RECURSIVE TrimStart(_)
TrimStart(s) ==
    IF s # <<>> /\ Head(s) \in WhitespaceChars THEN TrimStart(Tail(s)) ELSE s

RECURSIVE TrimEnd(_)
TrimEnd(s) ==
    IF s # <<>> /\ s[Len(s)] \in WhitespaceChars
    THEN TrimEnd(SubSeq(s, 1, Len(s) - 1))
    ELSE s

Trim(s) == TrimEnd(TrimStart(s))

\* The byte of a character of a stem or a title
CharCode(c) ==
    CASE c = " " -> 32
      [] c = "a" -> 97
      [] c = "b" -> 98
      [] c = "t" -> 116

\* str::cmp(a, b) = Ordering::Less: the order of the bytes
RECURSIVE StrLess(_, _)
StrLess(a, b) ==
    IF b = <<>> THEN FALSE
    ELSE IF a = <<>> THEN TRUE
    ELSE IF Head(a) = Head(b) THEN StrLess(Tail(a), Tail(b))
    ELSE CharCode(Head(a)) < CharCode(Head(b))

\* slice::sort_by on the keys of [key, val] pairs: a stable sort
RECURSIVE InsertByKey(_, _)
InsertByKey(sorted, x) ==
    IF sorted = <<>> THEN <<x>>
    ELSE IF StrLess(x.key, Head(sorted).key) THEN <<x>> \o sorted
    ELSE <<Head(sorted)>> \o InsertByKey(Tail(sorted), x)

RECURSIVE SortByKey(_)
SortByKey(q) ==
    IF q = <<>> THEN <<>>
    ELSE InsertByKey(SortByKey(SubSeq(q, 1, Len(q) - 1)), q[Len(q)])

\* HashMap::into_iter().collect(): the entries in some order
RECURSIVE Entries(_)
Entries(map) ==
    IF DOMAIN map = {} THEN <<>>
    ELSE LET k == CHOOSE k \in DOMAIN map : TRUE
         IN <<[key |-> k, val |-> map[k]]>>
            \o Entries([j \in DOMAIN map \ {k} |-> map[j]])

JsonNumber(n) == [kind |-> "number", n |-> n]

FallbackSchema == "{\"type\":\"object\",\"properties\":{},\"required\":[]}"

\* The texts a schema() export returns here
SchemaTexts ==
    {"{\"title\":\"t\"}", "{\"title\":\" t\"}", "{\"title\":\"\"}", "{\"title\":\" \"}",
     "{\"title\":5}", "{}", "{", " "}

\* serde_json::from_str::<Value>: the value of a text, None when it is not JSON
ParseJson(text) ==
    CASE text = "{\"title\":\"t\"}" -> Some(JsonObject([title |-> JsonString(<<"t">>)]))
      [] text = "{\"title\":\" t\"}" -> Some(JsonObject([title |-> JsonString(<<" ", "t">>)]))
      [] text = "{\"title\":\"\"}" -> Some(JsonObject([title |-> JsonString(<<>>)]))
      [] text = "{\"title\":\" \"}" -> Some(JsonObject([title |-> JsonString(<<" ">>)]))
      [] text = "{\"title\":5}" -> Some(JsonObject([title |-> JsonNumber(5)]))
      [] text = "{}" -> Some(JsonObject(EmptyMap))
      [] text = FallbackSchema ->
            Some(JsonObject([type |-> JsonString(<<"o">>), properties |-> JsonObject(EmptyMap),
                             required |-> JsonNull]))
      [] OTHER -> None

\* schema.trim().is_empty()
BlankText(text) == text = " "

Stems == {<<"a">>, <<"b">>}

Dirs == {"d1", "d2"}

\* What a path of a discover request can be
PathNames == Dirs \cup {"gone", "file"}

\* An artifact that prepares without any fallback, under the title "t"
TitledArtifact ==
    [compiles |-> TRUE, capabilities |-> "absent", instantiates |-> TRUE,
     description |-> Ok(<<"d">>), schema |-> Ok("{\"title\":\"t\"}")]

\* The same without a title: its name is its stem
PlainArtifact == [TitledArtifact EXCEPT !.schema = Ok("{}")]

Uncompilable == [TitledArtifact EXCEPT !.compiles = FALSE]

Artifacts ==
    {Uncompilable,
     [TitledArtifact EXCEPT !.capabilities = "invalid"],
     [PlainArtifact EXCEPT !.capabilities = "valid"],
     [TitledArtifact EXCEPT !.instantiates = FALSE]}
    \cup {[TitledArtifact EXCEPT !.schema = Ok(t)] : t \in SchemaTexts}
    \cup {[TitledArtifact EXCEPT !.schema = Err("schema() failed", <<>>)]}
    \cup {[PlainArtifact EXCEPT !.description = d] :
             d \in {Ok(<<" ">>), Err("description() failed", <<>>)}}

\* The file systems: the first directory holds any artifact under the first
\* stem and a plain, titled or uncompilable one under the second; the second
\* directory holds at most a titled artifact of the first stem.
FileSystems ==
    {[d1 |-> first, d2 |-> second] :
        first \in {f \in UNION {[S -> Artifacts] : S \in SUBSET Stems} :
                      <<"b">> \in DOMAIN f =>
                          f[<<"b">>] \in {TitledArtifact, PlainArtifact, Uncompilable}},
        second \in UNION {[S -> {TitledArtifact}] : S \in SUBSET {<<"a">>}}}

\* The paths of a discover request: no path twice
PathLists ==
    {q \in SeqsUpTo(PathNames, MaxPaths) :
        \A i, j \in DOMAIN q : q[i] = q[j] => i = j}

\* A warning or an error of a DiscoverResult: the text with what it formats
Note(text, subject) == [text |-> text, subject |-> subject]

\* "WASM tool {fallback_name}"
FallbackDescription(fallback_name) == <<"W", " ">> \o fallback_name

\* extract_metadata: the metadata instantiation and the two exports
extract_metadata(artifact, fallback_name) ==
    IF ~artifact.instantiates
    THEN Err("failed to instantiate for metadata", <<>>)
    ELSE Ok([description |->
                IF artifact.description.ok /\ ~TrimIsEmpty(artifact.description.val)
                THEN artifact.description.val
                ELSE FallbackDescription(fallback_name),
             schema_json |->
                IF artifact.schema.ok /\ ~BlankText(artifact.schema.val)
                THEN artifact.schema.val
                ELSE FallbackSchema,
             warnings |->
                (IF ~artifact.description.ok
                 THEN <<Note("description() failed", artifact.description.msg)>>
                 ELSE IF TrimIsEmpty(artifact.description.val)
                 THEN <<Note("tool returned empty description; using fallback", <<>>)>>
                 ELSE <<>>)
                \o (IF ~artifact.schema.ok
                    THEN <<Note("schema() failed", artifact.schema.msg)>>
                    ELSE IF BlankText(artifact.schema.val)
                    THEN <<Note("tool returned empty schema; using fallback", <<>>)>>
                    ELSE <<>>)])

\* parsed_schema.get("title").and_then(Value::as_str)
TitleOf(parsed_schema) ==
    IF "title" \in DOMAIN parsed_schema.fields
       /\ parsed_schema.fields.title.kind = "string"
    THEN Some(parsed_schema.fields.title.s)
    ELSE None

\* Runtime::prepare_tool from the metadata on: the name, the schema and the
\* warnings.  parsed is serde_json::from_str(&schema_json).
PrepareWith(wasm_path, fallback_name, capabilities, limits, meta, parsed) ==
    LET title == TitleOf(IF parsed = None THEN JsonObject(EmptyMap) ELSE parsed[1])
    IN Ok([tool |->
              [name |-> IF title # None /\ Trim(title[1]) # <<>>
                        THEN Trim(title[1])
                        ELSE fallback_name,
               path |-> wasm_path,
               description |-> meta.description,
               schema_json |-> IF parsed # None THEN meta.schema_json
                               ELSE FallbackSchema,
               capabilities |-> capabilities,
               limits |-> limits],
           warnings |->
              meta.warnings
              \o (IF title = None
                  THEN <<Note("has no schema title; using file stem as tool name",
                              wasm_path)>>
                  ELSE <<>>)
              \o (IF parsed = None
                  THEN <<Note("returned invalid schema JSON; using fallback schema",
                              wasm_path)>>
                  ELSE <<>>)])

\* Runtime::prepare_tool
prepare_tool(dflts, wasm_path, fallback_name, artifact) ==
    IF ~artifact.compiles
    THEN Err("failed to compile component", wasm_path)
    ELSE IF artifact.capabilities = "invalid"
    THEN Err("failed to parse capabilities", wasm_path)
    ELSE IF ~extract_metadata(artifact, fallback_name).ok
    THEN extract_metadata(artifact, fallback_name)
    ELSE PrepareWith(wasm_path, fallback_name,
                     IF artifact.capabilities = "valid" THEN ExecCaps
                     ELSE DefaultCapabilities,
                     ToolLimitsOf(dflts),
                     extract_metadata(artifact, fallback_name).val,
                     ParseJson(extract_metadata(artifact, fallback_name).val.schema_json))

\* Runtime::discover, the scan of the paths (lines 153-199): a path that does
\* not exist is skipped, one that is not a directory gives a warning, and of
\* the artifacts of a stem the first one seen is kept.
RECURSIVE ScanPaths(_, _, _)
ScanPaths(fsys, paths, acc) ==
    IF paths = <<>> THEN acc
    ELSE ScanPaths(fsys, Tail(paths),
            IF Head(paths) = "gone" THEN acc
            ELSE IF Head(paths) \notin DOMAIN fsys
            THEN [acc EXCEPT !.warnings =
                    Append(@, Note("skipping non-directory wasm tool path", Head(paths)))]
            ELSE [acc EXCEPT !.chosen_paths =
                    [stem \in DOMAIN acc.chosen_paths \cup DOMAIN fsys[Head(paths)] |->
                        IF stem \in DOMAIN acc.chosen_paths THEN acc.chosen_paths[stem]
                        ELSE [dir |-> Head(paths), stem |-> stem]]])

\* errors.push(format!("{}: {}", path.display(), err))
DropError(errors, note) == errors

PushError(errors, note) == Append(errors, note)

\* Runtime::discover, the body of the loop over ordered_paths: `prepared` is
\* what prepare_tool returned for `path`.
Collect(acc, path, prepared) ==
    IF ~prepared.ok
    THEN [acc EXCEPT !.errors = PushError(@, Note(prepared.msg, path))]
    ELSE IF prepared.val.tool.name \in DOMAIN acc.prepared_tools
    THEN [acc EXCEPT !.warnings =
            Append(@, Note("tool name collision",
                           [name |-> prepared.val.tool.name, path |-> path]))]
    ELSE [acc EXCEPT
            !.warnings = @ \o prepared.val.warnings,
            !.discovered = Append(@, [name |-> prepared.val.tool.name,
                                      path |-> prepared.val.tool.path,
                                      description |-> prepared.val.tool.description,
                                      schema_json |-> prepared.val.tool.schema_json]),
            !.prepared_tools =
                [n \in DOMAIN @ \cup {prepared.val.tool.name} |->
                    IF n \in DOMAIN @ THEN @[n] ELSE prepared.val.tool]]

RECURSIVE PrepareEach(_, _, _, _)
PrepareEach(fsys, dflts, ordered_paths, acc) ==
    IF ordered_paths = <<>> THEN acc
    ELSE PrepareEach(fsys, dflts, Tail(ordered_paths),
            Collect(acc, Head(ordered_paths).val,
                    prepare_tool(dflts, Head(ordered_paths).val,
                                 Head(ordered_paths).key,
                                 fsys[Head(ordered_paths).val.dir][Head(ordered_paths).key])))

\* discovered.sort_by(|a, b| a.name.cmp(&b.name))
Unsorted(discovered_tools) == discovered_tools

SortByName(discovered_tools) ==
    [i \in DOMAIN discovered_tools |->
        SortByKey([j \in DOMAIN discovered_tools |->
                      [key |-> discovered_tools[j].name,
                       val |-> discovered_tools[j]]])[i].val]

\* Runtime::discover from the chosen paths on: the tools map that replaces
\* Runtime.tools and the DiscoverResult
DiscoverChosen(fsys, dflts, scan) ==
    LET acc == PrepareEach(fsys, dflts, SortByKey(Entries(scan.chosen_paths)),
                           [prepared_tools |-> EmptyMap, discovered |-> <<>>,
                            warnings |-> scan.warnings, errors |-> <<>>])
    IN [tools |-> acc.prepared_tools,
        result |-> [tools |-> SortByName(acc.discovered),
                    warnings |-> acc.warnings,
                    errors |-> acc.errors]]

\* Runtime::discover
discover(fsys, paths, dflts) ==
    DiscoverChosen(fsys, dflts,
                   ScanPaths(fsys, paths, [chosen_paths |-> EmptyMap, warnings |-> <<>>]))

\* self.tools = prepared_tools
KeepOldTools(old, prepared_tools) ==
    [n \in DOMAIN old \cup DOMAIN prepared_tools |->
        IF n \in DOMAIN prepared_tools THEN prepared_tools[n] ELSE old[n]]

ReplaceTools(old, prepared_tools) == prepared_tools

DiscoverInit ==
    /\ RuntimeNew
    /\ PureIdle
    /\ QueueNew
    /\ files \in FileSystems
    /\ discovered = None

\* A discover request: Runtime::discover on the paths of the request, with the
\* defaults of the request.
Respond(paths, dflts, found) ==
    /\ defaults' = dflts
    /\ tools' = ReplaceTools(tools, found.tools)
    /\ discovered' = Some([paths |-> paths, result |-> found.result])

DiscoverPaths(paths, dflts) ==
    /\ ~Running
    /\ Respond(paths, dflts, discover(files, paths, dflts))
    /\ UNCHANGED <<stack, result, response, effects, files, pureVars, queueVars>>

\* The names an invoke request asks for
AskedNames == Stems \cup {<<"t">>}

DiscoverNext ==
    \/ \E paths \in PathLists :
          DiscoverPaths(paths, DefaultRuntimeDefaults)
    \/ \E t \in AskedNames, i \in BOOLEAN : Invoke(t, i, OneFirst(tools), RequestContext)
    \/ \E g \in GuestResponses : GuestReturn(g)

SpecDiscover == DiscoverInit /\ [][DiscoverNext]_vars

\* The names of tools[] of a DiscoverResult
NamesOf(discover_result) ==
    {discover_result.tools[i].name : i \in DOMAIN discover_result.tools}

\* The names of tools[] of the most recent discover response
Listed == IF discovered = None THEN {} ELSE NamesOf(discovered[1].result)

\* Some artifact of the file system prepares under the name n
Preparable(n) ==
    \E d \in DOMAIN files : \E stem \in DOMAIN files[d] :
        LET p == prepare_tool(defaults, [dir |-> d, stem |-> stem], stem, files[d][stem])
        IN p.ok /\ p.val.tool.name = n

\* C16: the tools that invoke finds are at every moment those of tools[] of
\* the most recent discover response (none before the first discover); an
\* invoke of a listed name gets past the lookup, and an invoke of any other
\* name returns ToolNotFound with no guest started.
C16_FindsListedOnly ==
    [][/\ (discovered' = None => DOMAIN tools' = {})
       /\ (discovered' # None => DOMAIN tools' = NamesOf(discovered'[1].result))
       /\ (~Running /\ discovered' = discovered) =>
             IF Running'
             THEN stack'[1].tool \in Listed /\ Len(stack') = 1
             ELSE /\ response' # None
                  /\ ~response'[1].ok
                  /\ IF response'[1].msg = "tool not found"
                     THEN response'[1].detail \notin Listed
                     ELSE response'[1].detail \in Listed]_vars

\* After a discover that listed tools, an invoke names a tool that an artifact
\* of the file system prepares as, but that the most recent response does not
\* list, and gets ToolNotFound.
C16_Witness ==
    /\ discovered # None
    /\ Listed # {}
    /\ ~Running
    /\ response # None
    /\ ~response[1].ok
    /\ response[1].msg = "tool not found"
    /\ response[1].detail \notin Listed
    /\ Preparable(response[1].detail)

\* The artifacts the most recent discover chose, by stem
Chosen ==
    ScanPaths(files, discovered[1].paths,
              [chosen_paths |-> EmptyMap, warnings |-> <<>>]).chosen_paths

\* What preparing the chosen artifact of `stem` gives
PreparedOf(stem) ==
    prepare_tool(defaults, Chosen[stem], stem, files[Chosen[stem].dir][stem])

IsCollision(w) == w.text = "tool name collision"

\* C17: tools[] of every discover response is strictly ascending by name, so
\* no name occurs twice; a collision warning names an artifact whose name is
\* listed for an artifact of a smaller stem; and of two chosen artifacts that
\* prepare under one name the one of the greater stem has a collision warning
\* and is not listed.
C17_SortedNoDuplicates ==
    discovered # None =>
        LET r == discovered[1].result
        IN /\ \A i \in 1..(Len(r.tools) - 1) :
                 StrLess(r.tools[i].name, r.tools[i + 1].name)
           /\ \A k \in DOMAIN r.warnings :
                 IsCollision(r.warnings[k]) =>
                    \E i \in DOMAIN r.tools :
                       /\ r.tools[i].name = r.warnings[k].subject.name
                       /\ StrLess(r.tools[i].path.stem,
                                  r.warnings[k].subject.path.stem)
           /\ \A s1, s2 \in DOMAIN Chosen :
                 (/\ StrLess(s1, s2)
                  /\ PreparedOf(s1).ok
                  /\ PreparedOf(s2).ok
                  /\ PreparedOf(s1).val.tool.name = PreparedOf(s2).val.tool.name) =>
                    /\ \E k \in DOMAIN r.warnings :
                          /\ IsCollision(r.warnings[k])
                          /\ r.warnings[k].subject.path = Chosen[s2]
                    /\ \A i \in DOMAIN r.tools : r.tools[i].path # Chosen[s2]
                    /\ \E i \in DOMAIN r.tools : r.tools[i].path = Chosen[s1]

\* A discover response with a collision warning
C17_Witness ==
    /\ discovered # None
    /\ \E k \in DOMAIN discovered[1].result.warnings :
          IsCollision(discovered[1].result.warnings[k])
    /\ discovered[1].result.tools # <<>>

\* The number of elements of a sequence that satisfy Test
CountIn(q, Test(_)) == Cardinality({k \in DOMAIN q : Test(q[k])})

\* C18: every artifact the most recent discover chose is in exactly one of
\* tools[], errors[] and the collision warnings, once; it is in errors[]
\* exactly when preparing it fails (compile, capabilities file, metadata
\* instantiation), whatever happens to the other artifacts; and errors[]
\* holds nothing else.
C18_ErrorsPerArtifact ==
    discovered # None =>
        LET r == discovered[1].result
        IN /\ \A stem \in DOMAIN Chosen :
                 LET AtTool(t) == t.path = Chosen[stem]
                     AtError(e) == e.subject = Chosen[stem]
                     AtCollision(w) == IsCollision(w) /\ w.subject.path = Chosen[stem]
                 IN /\ CountIn(r.tools, AtTool) + CountIn(r.errors, AtError)
                          + CountIn(r.warnings, AtCollision) = 1
                    /\ CountIn(r.errors, AtError) = 1 <=> ~PreparedOf(stem).ok
           /\ Len(r.errors) = Cardinality({stem \in DOMAIN Chosen : ~PreparedOf(stem).ok})

\* The artifact of the first stem failed and the artifact of the second one,
\* prepared after it, is listed.
C18_Witness ==
    /\ discovered # None
    /\ \E k \in DOMAIN discovered[1].result.errors :
          discovered[1].result.errors[k].subject.stem = <<"a">>
    /\ \E i \in DOMAIN discovered[1].result.tools :
          discovered[1].result.tools[i].path.stem = <<"b">>

\* The positions of the request's paths that are directories holding `stem`
Holding(stem) ==
    {i \in DOMAIN discovered[1].paths :
        /\ discovered[1].paths[i] \in DOMAIN files
        /\ stem \in DOMAIN files[discovered[1].paths[i]]}

\* The warning w is about the artifact at `path`
WarnsAbout(w, path) ==
    \/ w.subject = path
    \/ IsCollision(w) /\ w.subject.path = path

\* C19 as stated: of the artifacts of one stem the one of the earliest
\* directory of the request is the one chosen, and for each of the later ones
\* the response holds a warning.
C19_DuplicateStemWarned ==
    discovered # None =>
        \A stem \in Stems : \A i, j \in Holding(stem) :
            (i < j /\ \A k \in Holding(stem) : i <= k) =>
                /\ Chosen[stem].dir = discovered[1].paths[i]
                /\ \E k \in DOMAIN discovered[1].result.warnings :
                      WarnsAbout(discovered[1].result.warnings[k],
                                 [dir |-> discovered[1].paths[j], stem |-> stem])

\* The title of the schema an artifact that instantiates declares: None when
\* the schema has no title or the title is not a string
SchemaTitle(artifact) ==
    LET parsed == ParseJson(extract_metadata(artifact, <<>>).val.schema_json)
    IN TitleOf(IF parsed = None THEN JsonObject(EmptyMap) ELSE parsed[1])

IsTitleWarning(w) == w.text = "has no schema title; using file stem as tool name"

IsDescriptionWarning(w) ==
    w.text \in {"description() failed", "tool returned empty description; using fallback"}

IsSchemaWarning(w) ==
    w.text \in {"schema() failed", "tool returned empty schema; using fallback",
                "returned invalid schema JSON; using fallback schema"}

\* C20 as stated: a listed tool is named by the title of its schema when that
\* is a string with something other than whitespace in it and by its stem in
\* every other case, and the response holds a warning for each fallback it
\* took: of the description, of the schema, and of the title to the stem, an
\* empty or whitespace-only title included.
C20_EveryFallbackWarned ==
    discovered # None =>
        LET r == discovered[1].result
        IN \A i \in DOMAIN r.tools :
              LET artifact == files[r.tools[i].path.dir][r.tools[i].path.stem]
                  title == SchemaTitle(artifact)
                  titled == title # None /\ Trim(title[1]) # <<>>
              IN /\ r.tools[i].name = IF titled THEN Trim(title[1])
                                       ELSE r.tools[i].path.stem
                 /\ r.tools[i].description = FallbackDescription(r.tools[i].path.stem) =>
                       \E k \in DOMAIN r.warnings : IsDescriptionWarning(r.warnings[k])
                 /\ r.tools[i].schema_json = FallbackSchema =>
                       \E k \in DOMAIN r.warnings : IsSchemaWarning(r.warnings[k])
                 /\ ~titled =>
                       \E k \in DOMAIN r.warnings :
                          /\ IsTitleWarning(r.warnings[k])
                          /\ r.warnings[k].subject = r.tools[i].path

(***************************************************************************)
(* The capability model on its own (capabilities.rs, SpecPolicy): one      *)
(* function of CapabilitiesFile is applied to arguments drawn from the     *)
(* sets below, and its return value is kept in verdict.                    *)
(***************************************************************************)
MaxEntries == 2

MaxArgs == 2

\* The words of an argv, of allowed_subcommands and of blocked_flags
ExecWords == {<<>>, <<"s">>, <<"l">>, <<"-", "f">>}

\* The entries of an exec allowlist (ExecAllowlistEntry)
ExecEntries ==
    {[program |-> p, allowed_subcommands |-> subs, blocked_flags |-> flags] :
        p \in {"git", "ls"},
        subs \in {<<>>, << <<"s">> >>, << <<"l">> >>},
        flags \in {<<>>, << <<"-", "f">> >>}}

\* A capability file with the exec section `section`
WithExec(section) == [DefaultCapabilities EXCEPT !.exec = section]

\* The calls of exec_allowed: allowlists of at most max_entries entries,
\* argument vectors of at most max_args words
ExecAllowedCalls(max_entries, max_args) ==
    {[fn |-> "exec_allowed", caps |-> WithExec(section), program |-> p, args |-> args] :
        section \in {None} \cup {Some([allowlist |-> l, rate_limit |-> None]) :
                                    l \in SeqsUpTo(ExecEntries, max_entries)},
        p \in {"git", "ls"},
        args \in SeqsUpTo(ExecWords, max_args)}

\* caps.exec_allowed(&program, &args)
ExecAllowed ==
    /\ applied # None
    /\ applied[1].fn = "exec_allowed"
    /\ verdict = None
    /\ verdict' = Some(exec_allowed(applied[1].caps, applied[1].program, applied[1].args))
    /\ UNCHANGED <<applied, stdout_raw, secret_list, stdout, hostVars, queueVars>>

\* The characters of a workspace path
PathChars == {"d", "/", ".", NulChar}

MaxPathLen == 3

\* The entries of allowed_prefixes
WorkspacePrefixes == {<<>>, <<"d">>, <<"d", "/">>, <<".">>}

\* The calls of workspace_read_allowed: at most max_entries prefixes, paths of
\* at most max_len characters
WorkspaceReadAllowedCalls(max_entries, max_len) ==
    {[fn |-> "workspace_read_allowed",
      caps |-> [DefaultCapabilities EXCEPT !.workspace = section],
      path |-> path] :
        section \in {None} \cup {Some([allowed_prefixes |-> l]) :
                                    l \in SeqsUpTo(WorkspacePrefixes, max_entries)},
        path \in SeqsUpTo(PathChars, max_len)}

\* caps.workspace_read_allowed(&path)
WorkspaceReadAllowed ==
    /\ applied # None
    /\ applied[1].fn = "workspace_read_allowed"
    /\ verdict = None
    /\ verdict' = Some(workspace_read_allowed(applied[1].caps, applied[1].path))
    /\ UNCHANGED <<applied, stdout_raw, secret_list, stdout, hostVars, queueVars>>

\* What Url::parse makes of the URLs asked for: one that does not parse, one
\* without a host, and hosts with paths
ParsedUrls ==
    {[parses |-> FALSE, host |-> None, path |-> <<>>, query |-> <<>>],
     [parses |-> TRUE, host |-> None, path |-> <<"/", "v">>, query |-> <<>>]}
    \cup {[parses |-> TRUE, host |-> Some(h), path |-> p, query |-> <<>>] :
             h \in {<<"a", ".", "x">>, <<"A", ".", "X">>, <<"x">>},
             p \in {<<"/">>, <<"/", "v">>, <<"/", "v", "w">>}}

\* The entries of an http allowlist (EndpointPatternSchema)
EndpointPatterns ==
    {[host |-> h, path_prefix |-> prefix, methods |-> methods] :
        h \in {<<"*", ".", "x">>, <<"X">>},
        prefix \in {None, Some(<<"/", "v">>)},
        methods \in {<<>>, << <<"g", "e", "t">> >>, << <<"P", "U", "T">>, <<"G", "e", "t">> >>}}

AskedMethods == {<<"g", "e", "t">>, <<"G", "E", "T">>, <<"p", "u", "t">>, <<"P", "O", "S", "T">>}

\* The calls of http_allowed: allowlists of at most max_entries entries
HttpAllowedCalls(max_entries) ==
    {[fn |-> "http_allowed",
      caps |-> [DefaultCapabilities EXCEPT !.http = section],
      method |-> m, url |-> u] :
        section \in {None} \cup {Some([allowlist |-> l, rate_limit |-> None]) :
                                    l \in SeqsUpTo(EndpointPatterns, max_entries)},
        m \in AskedMethods,
        u \in ParsedUrls}

\* caps.http_allowed(&method, &url)
HttpAllowed ==
    /\ applied # None
    /\ applied[1].fn = "http_allowed"
    /\ verdict = None
    /\ verdict' = Some(http_allowed(applied[1].caps, applied[1].method, applied[1].url))
    /\ UNCHANGED <<applied, stdout_raw, secret_list, stdout, hostVars, queueVars>>

\* The characters of a host and of a host pattern
HostChars == {"x", "X", ".", "*"}

MaxHostLen == 3

\* The host patterns whose suffix has at most max_len characters: the short
\* ones, and "*." before every suffix
HostPatterns(max_len) ==
    SeqsUpTo(HostChars, max_len)
    \cup {<<"*", ".">> \o suffix : suffix \in SeqsUpTo(HostChars \ {"*"}, max_len)}

\* The calls of host_matches_pattern: hosts of at most max_len characters
HostMatchesCalls(max_len) ==
    {[fn |-> "host_matches_pattern", host |-> h, pattern |-> pattern] :
        h \in SeqsUpTo(HostChars, max_len),
        pattern \in HostPatterns(max_len - 1)}

\* host_matches_pattern(host, &pattern.host)
HostMatches ==
    /\ applied # None
    /\ applied[1].fn = "host_matches_pattern"
    /\ verdict = None
    /\ verdict' = Some(host_matches_pattern(applied[1].host, applied[1].pattern))
    /\ UNCHANGED <<applied, stdout_raw, secret_list, stdout, hostVars, queueVars>>

\* The characters of a secret name and of a pattern of allowed_names
NameChars == {"T", "A", "*"}

MaxNameLen == 3

\* The patterns of allowed_names: exact names, suffix wildcards, and
\* wildcards elsewhere
NamePatterns ==
    {<<>>, <<"*">>, <<"T">>, <<"T", "*">>, <<"T", "A">>, <<"*", "A">>, <<"T", "*", "A">>}

\* The calls of secret_allowed: at most max_entries patterns, names of at most
\* max_len characters
SecretAllowedCalls(max_entries, max_len) ==
    {[fn |-> "secret_allowed",
      caps |-> [DefaultCapabilities EXCEPT !.secrets = section],
      name |-> name] :
        section \in {None} \cup {Some([allowed_names |-> l]) :
                                    l \in SeqsUpTo(NamePatterns, max_entries)},
        name \in SeqsUpTo(NameChars, max_len)}

\* caps.secret_allowed(&name)
SecretAllowed ==
    /\ applied # None
    /\ applied[1].fn = "secret_allowed"
    /\ verdict = None
    /\ verdict' = Some(secret_allowed(applied[1].caps, applied[1].name))
    /\ UNCHANGED <<applied, stdout_raw, secret_list, stdout, hostVars, queueVars>>

\* fn default_requests_per_minute
default_requests_per_minute == 60

\* fn default_requests_per_hour
default_requests_per_hour == 1000

\* RateLimitSchema as serde reads it from the fields of a JSON object: a
\* field that is omitted takes its default
RateLimitFromJson(fields) ==
    [requests_per_minute |->
        IF "requests_per_minute" \in DOMAIN fields THEN fields.requests_per_minute
        ELSE default_requests_per_minute,
     requests_per_hour |->
        IF "requests_per_hour" \in DOMAIN fields THEN fields.requests_per_hour
        ELSE default_requests_per_hour]

\* The rate_limit objects of a capabilities file
RateLimitObjects ==
    {EmptyMap, [requests_per_hour |-> 5]}
    \cup {[requests_per_minute |-> n] : n \in {0, 1, 7, 60}}
    \cup {[requests_per_minute |-> 0, requests_per_hour |-> 5]}

\* A gated section as it stands in the capabilities file: absent, without
\* rate_limit, or with a rate_limit object
SectionsJson ==
    {None, Some([rate_limit |-> None])}
    \cup {Some([rate_limit |-> Some(o)]) : o \in RateLimitObjects}

\* serde_json::from_str::<CapabilitiesFile> on a file with the one section
CapsFromJson(class, section) ==
    [DefaultCapabilities EXCEPT
        ![class] = IF section = None THEN None
                   ELSE IF section[1].rate_limit = None THEN Some([rate_limit |-> None])
                   ELSE Some([rate_limit |->
                                Some(RateLimitFromJson(section[1].rate_limit[1]))])]

LimitCalls ==
    {[fn |-> "limit", class |-> class, section |-> section] :
        class \in {"http", "tool_invoke", "exec"},
        section \in SectionsJson}

\* caps.http_limit(), caps.tool_invoke_limit() or caps.exec_limit() of the
\* capabilities file read from JSON
EffectiveLimit ==
    /\ applied # None
    /\ applied[1].fn = "limit"
    /\ verdict = None
    /\ verdict' =
          Some(CASE applied[1].class = "http" ->
                        http_limit(CapsFromJson("http", applied[1].section))
                 [] applied[1].class = "tool_invoke" ->
                        tool_invoke_limit(CapsFromJson("tool_invoke", applied[1].section))
                 [] applied[1].class = "exec" ->
                        exec_limit(CapsFromJson("exec", applied[1].section)))
    /\ UNCHANGED <<applied, stdout_raw, secret_list, stdout, hostVars, queueVars>>

\* The functions of the capability policy
PolicyFunctions ==
    {"exec_allowed", "workspace_read_allowed", "http_allowed", "host_matches_pattern",
     "secret_allowed", "limit"}

\* The calls of the policy function fn
PolicyCalls(fn) ==
    CASE fn = "exec_allowed" -> ExecAllowedCalls(MaxEntries, MaxArgs)
      [] fn = "workspace_read_allowed" -> WorkspaceReadAllowedCalls(MaxEntries, MaxPathLen)
      [] fn = "http_allowed" -> HttpAllowedCalls(MaxEntries)
      [] fn = "host_matches_pattern" -> HostMatchesCalls(MaxHostLen)
      [] fn = "secret_allowed" -> SecretAllowedCalls(MaxEntries, MaxNameLen)
      [] fn = "limit" -> LimitCalls

PolicyInit ==
    /\ \E fn \in PolicyFunctions : applied \in {Some(c) : c \in PolicyCalls(fn)}
    /\ verdict = None
    /\ stdout_raw = <<>>
    /\ secret_list = <<>>
    /\ stdout = None
    /\ RuntimeNew
    /\ QueueNew
    /\ NoFiles

PolicyNext ==
    \/ ExecAllowed
    \/ WorkspaceReadAllowed
    \/ HttpAllowed
    \/ HostMatches
    \/ SecretAllowed
    \/ EffectiveLimit

SpecPolicy == PolicyInit /\ [][PolicyNext]_vars

\* The function fn has returned for the arguments in applied
Returned(fn) == applied # None /\ applied[1].fn = fn /\ verdict # None

\* The entry admits the argv: its allowed_subcommands is empty or holds
\* argv[0] (the empty string for an empty argv), and no element of the argv
\* is one of its blocked_flags.
Admits(entry, args) ==
    /\ \/ entry.allowed_subcommands = <<>>
       \/ \E j \in DOMAIN entry.allowed_subcommands :
             entry.allowed_subcommands[j] = (IF args = <<>> THEN <<>> ELSE args[1])
    /\ \A a \in DOMAIN args : \A b \in DOMAIN entry.blocked_flags :
          args[a] # entry.blocked_flags[b]

\* C21 as stated: exec_allowed(p, argv) is ok exactly when some entry of the
\* exec allowlist is for the program p and admits the argv, for every
\* allowlist, one with several entries for the same program included.
C21_SomeEntryAdmits ==
    Returned("exec_allowed") =>
        (verdict[1].ok <=>
            /\ applied[1].caps.exec # None
            /\ \E i \in DOMAIN applied[1].caps.exec[1].allowlist :
                  /\ applied[1].caps.exec[1].allowlist[i].program = applied[1].program
                  /\ Admits(applied[1].caps.exec[1].allowlist[i], applied[1].args))

\* The path is empty, starts with '/', contains ".." or contains NUL
UnsafePath(path) ==
    \/ Len(path) = 0
    \/ path[1] = "/"
    \/ \E i \in 1..(Len(path) - 1) : path[i] = "." /\ path[i + 1] = "."
    \/ \E i \in DOMAIN path : path[i] = NulChar

\* p is a string prefix of s
IsPrefix(p, s) == Len(p) <= Len(s) /\ \A k \in DOMAIN p : s[k] = p[k]

\* C22: workspace_read_allowed is false for every unsafe path whatever the
\* allowed prefixes are, and for any other path it is true exactly when the
\* workspace section is present and allowed_prefixes is empty or holds a
\* string prefix of the path.
C22_UnsafePathsDenied ==
    Returned("workspace_read_allowed") =>
        (verdict[1] <=>
            /\ ~UnsafePath(applied[1].path)
            /\ applied[1].caps.workspace # None
            /\ \/ applied[1].caps.workspace[1].allowed_prefixes = <<>>
               \/ \E i \in DOMAIN applied[1].caps.workspace[1].allowed_prefixes :
                     IsPrefix(applied[1].caps.workspace[1].allowed_prefixes[i],
                              applied[1].path))

\* A path with ".." in it under an allowed prefix has been denied
C22_Witness ==
    /\ Returned("workspace_read_allowed")
    /\ applied[1].path = <<"d", ".", ".">>
    /\ applied[1].caps.workspace = Some([allowed_prefixes |-> << <<"d">> >>])
    /\ verdict = Some(FALSE)

\* a and b are equal up to the case of their ASCII letters
SameIgnoringCase(a, b) ==
    /\ Len(a) = Len(b)
    /\ \A k \in DOMAIN a : LowerChar(a[k]) = LowerChar(b[k])

\* The host-pattern rule: "*.S" matches the hosts that end with ".S" and are
\* not S, any other pattern the hosts equal to it, both up to ASCII case.
HostRule(h, pattern) ==
    IF Len(pattern) >= 2 /\ pattern[1] = "*" /\ pattern[2] = "."
    THEN /\ Len(h) >= Len(pattern) - 1
         /\ SameIgnoringCase(SubSeq(h, Len(h) - Len(pattern) + 2, Len(h)),
                             SubSeq(pattern, 2, Len(pattern)))
         /\ h # SubSeq(pattern, 3, Len(pattern))
    ELSE SameIgnoringCase(h, pattern)

\* The allowlist entry matches the method and the parsed URL
EntryMatches(e, method, url) ==
    /\ HostRule(url.host[1], e.host)
    /\ e.path_prefix = None \/ IsPrefix(e.path_prefix[1], url.path)
    /\ \/ e.methods = <<>>
       \/ \E j \in DOMAIN e.methods : SameIgnoringCase(e.methods[j], method)

\* C23: http_allowed is true exactly when the http section is present, the
\* URL parses and has a host, and some entry of the allowlist matches the
\* host by the host-pattern rule, the path by its prefix when it declares
\* one, and the method by its list, up to ASCII case, when it declares one.
C23_SomeEntryMatches ==
    Returned("http_allowed") =>
        (verdict[1] <=>
            /\ applied[1].caps.http # None
            /\ applied[1].url.parses
            /\ applied[1].url.host # None
            /\ \E i \in DOMAIN applied[1].caps.http[1].allowlist :
                  EntryMatches(applied[1].caps.http[1].allowlist[i],
                               applied[1].method, applied[1].url))

\* A request was allowed by the second entry of an allowlist whose first
\* entry is for the host but not for the method, the method differing in
\* case from the one declared.
C23_Witness ==
    /\ Returned("http_allowed")
    /\ verdict = Some(TRUE)
    /\ applied[1].method = <<"p", "u", "t">>
    /\ Len(applied[1].caps.http[1].allowlist) = 2
    /\ ~EntryMatches(applied[1].caps.http[1].allowlist[1], applied[1].method,
                     applied[1].url)
    /\ applied[1].caps.http[1].allowlist[1].host = applied[1].caps.http[1].allowlist[2].host
    /\ applied[1].caps.http[1].allowlist[2].path_prefix # None

\* C24: for every host h and suffix S, host_matches_pattern(h, "*.S") is true
\* exactly when h ends with ".S" up to ASCII case and h is not S, and a
\* pattern that does not start with "*." matches exactly the hosts equal to
\* it up to ASCII case.
C24_WildcardNeedsLabel ==
    Returned("host_matches_pattern") =>
        (verdict[1] <=> HostRule(applied[1].host, applied[1].pattern))

\* A host under the suffix of a wildcard pattern, in another case, matched it
C24_Witness ==
    /\ Returned("host_matches_pattern")
    /\ applied[1].pattern = <<"*", ".", "x">>
    /\ applied[1].host = <<"x", ".", "X">>
    /\ verdict = Some(TRUE)

\* C25: secret_allowed is true exactly when the secrets section is present
\* and some allowed pattern equals the name or ends in '*' with the part
\* before that '*' a prefix of the name; a '*' elsewhere stands for itself.
C25_SuffixWildcardOnly ==
    Returned("secret_allowed") =>
        (verdict[1] <=>
            /\ applied[1].caps.secrets # None
            /\ \E i \in DOMAIN applied[1].caps.secrets[1].allowed_names :
                  LET pattern == applied[1].caps.secrets[1].allowed_names[i]
                  IN \/ pattern = applied[1].name
                     \/ /\ Len(pattern) >= 1
                        /\ pattern[Len(pattern)] = "*"
                        /\ IsPrefix(SubSeq(pattern, 1, Len(pattern) - 1),
                                    applied[1].name))

\* A name that a '*' in the middle of the pattern would cover as a wildcard
\* has been refused.
C25_Witness ==
    /\ Returned("secret_allowed")
    /\ applied[1].caps.secrets = Some([allowed_names |-> << <<"T", "*", "A">> >>])
    /\ applied[1].name = <<"T", "T", "A">>
    /\ verdict = Some(FALSE)

\* The built-in default of a gated class
BuiltInLimit(class) ==
    CASE class = "http" -> DefaultHttpLimit
      [] class = "tool_invoke" -> DefaultToolInvokeLimit
      [] class = "exec" -> DefaultExecLimit

\* C26 as stated: the effective limit of a class is the requests_per_minute
\* its rate_limit object gives when that is present and positive, and the
\* built-in default of the class in every other case: no section, no
\* rate_limit, requests_per_minute omitted from the object, or zero.
C26_DefaultUnlessPositive ==
    Returned("limit") =>
        verdict[1] =
            IF /\ applied[1].section # None
               /\ applied[1].section[1].rate_limit # None
               /\ "requests_per_minute" \in DOMAIN applied[1].section[1].rate_limit[1]
               /\ applied[1].section[1].rate_limit[1].requests_per_minute > 0
            THEN applied[1].section[1].rate_limit[1].requests_per_minute
            ELSE BuiltInLimit(applied[1].class)

(***************************************************************************)
(* The placeholder engine on its own (runtime.rs,                          *)
(* resolve_secret_placeholders_with, SpecPlaceholder): the engine is       *)
(* applied to an input, a resolved-secrets list and a resolver, and then   *)
(* once more to what it returned.                                          *)
(***************************************************************************)
MaxPieces == 3

\* The pieces an input is made of: whole placeholders, a bare opener and
\* closer, and the parts that make an opener or a placeholder when joined
PlaceholderPieces ==
    {Placeholder(<<"A">>), Placeholder(<<"B">>), Opener, Closer, <<"B">>,
     <<"{", "{", "S", "E", "C">>, <<"R", "E", "T", ":", "B", "}", "}">>}

RECURSIVE Concat(_)
Concat(q) == IF q = <<>> THEN <<>> ELSE Head(q) \o Concat(Tail(q))

PlaceholderInputs == {Concat(q) : q \in SeqsUpTo(PlaceholderPieces, MaxPieces)}

\* What resolve_fn returns for the names A and B: a plaintext, among them
\* the empty one, one that is a placeholder and one that is an opener, or
\* an error
Worlds ==
    {[A |-> a, B |-> b] :
        a \in {Ok(<<>>), Ok(<<"x">>), Ok(Placeholder(<<"B">>)), Ok(Opener),
               Err("secret not found", <<"A">>)},
        b \in {Ok(<<"b">>), Err("secret not found", <<"B">>)}}

PlaceholderChars == {"{", "}", "S", "E", "C", "R", "T", ":", "A", "B", "x", "b", "z"}

\* resolve_fn: every other name is not found
NameResolver(world) ==
    [name \in Seq(PlaceholderChars) |->
        IF name = <<"A">> THEN world.A
        ELSE IF name = <<"B">> THEN world.B
        ELSE Err("secret not found", name)]

PlaceholderInit ==
    /\ applied \in {Some([fn |-> "resolve", input |-> input,
                          resolved_secrets |-> resolved, world |-> world,
                          first |-> None]) :
                       input \in PlaceholderInputs,
                       resolved \in {<<>>, << <<"z">> >>},
                       world \in Worlds}
    /\ verdict = None
    /\ stdout_raw = <<>>
    /\ secret_list = <<>>
    /\ stdout = None
    /\ RuntimeNew
    /\ QueueNew
    /\ NoFiles

\* resolve_secret_placeholders_with(input, &mut resolved_secrets, resolve_fn)
Substitute ==
    /\ applied # None
    /\ applied[1].fn = "resolve"
    /\ verdict = None
    /\ verdict' = Some(resolve_secret_placeholders_with(
                          applied[1].input, applied[1].resolved_secrets,
                          NameResolver(applied[1].world)))
    /\ UNCHANGED <<applied, stdout_raw, secret_list, stdout, hostVars, queueVars>>

\* The engine applied to the string and the list it returned
SubstituteAgain ==
    /\ applied # None
    /\ applied[1].fn = "resolve"
    /\ applied[1].first = None
    /\ verdict # None
    /\ verdict[1].res.ok
    /\ applied' = Some([applied[1] EXCEPT
                          !.input = verdict[1].res.val,
                          !.resolved_secrets = verdict[1].resolved,
                          !.first = Some([input |-> applied[1].input,
                                          resolved_secrets |->
                                              applied[1].resolved_secrets])])
    /\ verdict' = Some(resolve_secret_placeholders_with(
                          verdict[1].res.val, verdict[1].resolved,
                          NameResolver(applied[1].world)))
    /\ UNCHANGED <<stdout_raw, secret_list, stdout, hostVars, queueVars>>

PlaceholderNext ==
    \/ Substitute
    \/ SubstituteAgain

SpecPlaceholder == PlaceholderInit /\ [][PlaceholderNext]_vars

\* pat stands in s at position i
At(s, pat, i) ==
    /\ i >= 1
    /\ i + Len(pat) - 1 <= Len(s)
    /\ \A k \in DOMAIN pat : s[i + k - 1] = pat[k]

\* The first position from `from` on where pat stands in s, 0 when there is none
FirstAt(s, pat, from) ==
    IF \E i \in from..Len(s) : At(s, pat, i)
    THEN CHOOSE i \in from..Len(s) :
            At(s, pat, i) /\ \A j \in from..(i - 1) : ~At(s, pat, j)
    ELSE 0

\* The complete placeholders of an input, left to right: an opener, the name
\* up to the first closer after it, and that closer
RECURSIVE CompletePlaceholders(_, _)
CompletePlaceholders(input, from) ==
    LET start == FirstAt(input, Opener, from)
        stop == FirstAt(input, Closer, start + Len(Opener))
    IN IF start = 0 \/ stop = 0 THEN <<>>
       ELSE <<[start |-> start, last |-> stop + Len(Closer) - 1,
               name |-> SubSeq(input, start + Len(Opener), stop - 1)]>>
            \o CompletePlaceholders(input, stop + Len(Closer))

\* The input from `from` on with each of the placeholders ps replaced by the
\* plaintext rf gives for its name
RECURSIVE Spliced(_, _, _, _)
Spliced(input, from, ps, rf) ==
    IF ps = <<>> THEN SubSeq(input, from, Len(input))
    ELSE SubSeq(input, from, ps[1].start - 1) \o rf[ps[1].name].val
         \o Spliced(input, ps[1].last + 1, Tail(ps), rf)

\* C27: for an input with k complete placeholders whose names all resolve,
\* the engine asks the resolver for exactly those k names, left to right,
\* returns the input with each placeholder replaced by its plaintext, and
\* appends the k plaintexts in that order to the resolved-secrets list;
\* nothing inside a plaintext or across its boundary is taken for a
\* placeholder.
C27_EachPlaceholderOnce ==
    (Returned("resolve") /\ applied[1].first = None) =>
        LET ps == CompletePlaceholders(applied[1].input, 1)
            rf == NameResolver(applied[1].world)
        IN (\A k \in DOMAIN ps : rf[ps[k].name].ok) =>
              /\ verdict[1].res = Ok(Spliced(applied[1].input, 1, ps, rf))
              /\ verdict[1].asked = [k \in DOMAIN ps |-> ps[k].name]
              /\ verdict[1].resolved =
                    applied[1].resolved_secrets
                    \o [k \in DOMAIN ps |-> rf[ps[k].name].val]

\* Two placeholders were resolved, the plaintext of the first being itself a
\* placeholder, onto a list that held a secret already.
C27_Witness ==
    /\ Returned("resolve")
    /\ applied[1].first = None
    /\ applied[1].input = Placeholder(<<"A">>) \o Placeholder(<<"B">>)
    /\ applied[1].world.A = Ok(Placeholder(<<"B">>))
    /\ applied[1].world.B.ok
    /\ applied[1].resolved_secrets # <<>>
    /\ verdict[1].res.ok

\* C28: on an input without a complete placeholder (no opener, or only an
\* unterminated one) the engine returns the input unchanged, does not call
\* the resolver and leaves the resolved-secrets list as it was, and applied
\* to that result it returns the same again.
C28_NoPlaceholderUnchanged ==
    Returned("resolve") =>
        LET original == IF applied[1].first = None THEN applied[1]
                        ELSE applied[1].first[1]
        IN CompletePlaceholders(original.input, 1) = <<>> =>
              /\ verdict[1].res = Ok(original.input)
              /\ verdict[1].asked = <<>>
              /\ verdict[1].resolved = original.resolved_secrets

\* The engine has been applied twice to an input with an unterminated opener
C28_Witness ==
    /\ Returned("resolve")
    /\ applied[1].first # None
    /\ applied[1].first[1].input = <<"B">> \o Opener \o <<"B">>
    /\ applied[1].first[1].resolved_secrets # <<>>

\* The names of the complete placeholders of the strings `inputs`
PlaceholderNames(inputs) ==
    UNION {{CompletePlaceholders(inputs[i], 1)[k].name :
               k \in DOMAIN CompletePlaceholders(inputs[i], 1)} : i \in DOMAIN inputs}

\* The error of the resolver for a name it does not resolve: the name is not
\* allowed by the capabilities, or neither the host nor the environment has it
ResolverError(store, name, up) ==
    IF ~secret_allowed(store.capabilities, name)
    THEN Err("secret not allowed by capabilities", name)
    ELSE Err("secret not found", name)

\* The names among those of the argv and of the env values that fail to resolve
FailingNames(store, args, env, up) ==
    {n \in PlaceholderNames(args) \cup PlaceholderNames([i \in DOMAIN env |-> env[i].value]) :
        \/ ~secret_allowed(store.capabilities, n)
        \/ resolve_secret_for_host(n, up) = None}

(***************************************************************************)
(* Host::exec_command with its arguments kept (runtime.rs, SpecExec): the  *)
(* guest of the tool "exec" calls exec_command, and the call with the      *)
(* store it was made on is kept in applied, its return value in verdict.   *)
(***************************************************************************)
MaxExecCalls == 2

ExecCommandCall(program, args_json, env_json, up, spawn_ok) ==
    /\ CanCall("exec_command")
    /\ effects.ncalls < MaxExecCalls
    /\ ApplyToStack("exec_command", args_json # None /\ env_json # None,
                    exec_command(Top, program, args_json, env_json, up, spawn_ok))
    /\ applied' = Some([fn |-> "exec_command", store |-> Top, program |-> program,
                        args_json |-> args_json, env_json |-> env_json,
                        up |-> up, spawn_ok |-> spawn_ok])
    /\ verdict' = Some(exec_command(Top, program, args_json, env_json, up, spawn_ok).ret)
    /\ UNCHANGED <<stdout_raw, secret_list, stdout>>

\* The values of env with a placeholder in them
ExecEnvValues ==
    {None, Some(<<>>)}
    \cup {Some(<< [key |-> <<"K">>, value |-> Placeholder(n)] >>) : n \in {SecretTB, SecretPK}}

\* The values of args with at most one placeholder in them
ExecArgsValues ==
    {None, Some(<<>>)}
    \cup {Some(<<Placeholder(n)>>) : n \in {SecretTA, SecretTB, SecretPK}}

ExecNext ==
    \/ Discover(DefaultRuntimeDefaults)
    \/ Invoke("exec", TRUE, OneFirst(tools), RequestContext)
    \/ \E pr \in {"echo", "rm"}, a \in ExecArgsValues, e \in ExecEnvValues, up \in BOOLEAN :
          ExecCommandCall(pr, a, e, up, TRUE)

SpecExec == HostInit /\ [][ExecNext]_vars

\* C29: when an exec_command call gets as far as resolving placeholders and
\* a placeholder of an element of the argv or of a value of the env fails to
\* resolve, the call returns the error of the resolver for a failing name as
\* it is, and no subprocess is spawned.
C29_ResolverErrorStopsExec ==
    (/\ Returned("exec_command")
     /\ applied[1].args_json # None
     /\ applied[1].env_json # None
     /\ exec_allowed(applied[1].store.capabilities, applied[1].program,
                     applied[1].args_json[1]).ok
     /\ applied[1].store.exec_command_count + 1
           <= exec_limit(applied[1].store.capabilities)
     /\ FailingNames(applied[1].store, applied[1].args_json[1],
                     applied[1].env_json[1], applied[1].up) # {}) =>
        /\ \E n \in FailingNames(applied[1].store, applied[1].args_json[1],
                                 applied[1].env_json[1], applied[1].up) :
              verdict[1] = ResolverError(applied[1].store, n, applied[1].up)
        /\ Top.h.spawned = applied[1].store.h.spawned
        /\ Top.h.last.ret = verdict[1]

\* An exec_command call whose argv resolved was refused the secret that a
\* value of its env names, and spawned nothing.
C29_Witness ==
    /\ Returned("exec_command")
    /\ applied[1].args_json = Some(<<Placeholder(SecretTB)>>)
    /\ applied[1].env_json # None
    /\ applied[1].env_json[1] # <<>>
    /\ verdict[1] = Err("secret not allowed by capabilities", SecretPK)
    /\ Top.h.spawned = 0

\* What is left of `output` from position i on after some occurrences of the
\* strings S, no two of them overlapping, are each replaced by the token
\* [REDACTED] and nothing else is changed
RECURSIVE RedactedFrom(_, _, _)
RedactedFrom(output, S, i) ==
    IF i > Len(output) THEN {<<>>}
    ELSE {<<output[i]>> \o rest : rest \in RedactedFrom(output, S, i + 1)}
         \cup UNION {{Redacted \o rest : rest \in RedactedFrom(output, S, i + Len(x))} :
                        x \in {y \in S : At(output, y, i)}}

\* The non-empty strings of a resolved-secrets list
NonEmptySecrets(secrets) == {secrets[k] : k \in DOMAIN secrets} \ {<<>>}

\* C30 as stated: sanitize_output changes only occurrences of the non-empty
\* secrets, each such occurrence becoming exactly the token [REDACTED]: the
\* result is the output with occurrences of non-empty secrets replaced by
\* the token and nothing else changed, and it is the output itself when no
\* non-empty secret occurs in it.
C30_OnlySecretsReplaced ==
    stdout # None =>
        /\ stdout[1] \in RedactedFrom(stdout_raw, NonEmptySecrets(secret_list), 1)
        /\ (\A x \in NonEmptySecrets(secret_list) :
               \A i \in DOMAIN stdout_raw : ~At(stdout_raw, x, i)) =>
              stdout[1] = stdout_raw


(***************************************************************************)
(* The log buffer of a store (runtime.rs, StoreData::push_log, Host::log), *)
(* SpecLog.  A message is the sequence of the bytes of its UTF-8 encoding: *)
(* "a" is the byte of an ASCII character, "C3" and "A9" are the lead byte  *)
(* and the continuation byte of a two-byte character.  The timestamp of an *)
(* entry is left out.                                                      *)
(***************************************************************************)
MAX_LOG_ENTRIES == 1000

MAX_LOG_MESSAGE_BYTES == 4096

\* "... (truncated)"
TruncationMarker ==
    <<".", ".", ".", " ", "(", "t", "r", "u", "n", "c", "a", "t", "e", "d", ")">>

ContinuationBytes == {"A9"}

\* str::is_char_boundary(index): the start, the end, or a byte that is not a
\* continuation byte
IsCharBoundary(s, index) ==
    \/ index = 0
    \/ index = Len(s)
    \/ index < Len(s) /\ s[index + 1] \notin ContinuationBytes

\* &message[..end]: the slice, or the panic of a slice that does not end on a
\* character boundary
SliceTo(message, end) ==
    IF IsCharBoundary(message, end)
    THEN [panicked |-> FALSE, bytes |-> SubSeq(message, 1, end)]
    ELSE [panicked |-> TRUE, bytes |-> <<>>]

\* StoreData::push_log: the buffer it leaves, and whether it panicked
push_log(logs, level, message) ==
    IF Len(logs) >= MAX_LOG_ENTRIES
    THEN [logs |-> logs, panicked |-> FALSE]
    ELSE IF Len(message) > MAX_LOG_MESSAGE_BYTES
    THEN IF SliceTo(message, MAX_LOG_MESSAGE_BYTES).panicked
         THEN [logs |-> logs, panicked |-> TRUE]
         ELSE [logs |-> Append(logs,
                           [level |-> level,
                            message |-> SliceTo(message, MAX_LOG_MESSAGE_BYTES).bytes
                                           \o TruncationMarker]),
               panicked |-> FALSE]
    ELSE [logs |-> Append(logs, [level |-> level, message |-> message]),
          panicked |-> FALSE]

\* Host::log: the name of the level
LevelName(level) ==
    CASE level = "Trace" -> "trace"
      [] level = "Debug" -> "debug"
      [] level = "Info" -> "info"
      [] level = "Warn" -> "warn"
      [] level = "Error" -> "error"

\* Host::log
log(logs, level, message) == push_log(logs, LevelName(level), message)

LogLevels == {"Trace", "Debug", "Info", "Warn", "Error"}

\* A message of n ASCII characters
Ascii(n) == [i \in 1..n |-> "a"]

\* The messages a guest logs: short ones, ones of exactly and of more than
\* MAX_LOG_MESSAGE_BYTES bytes, and ones that hold a two-byte character
\* before and across byte MAX_LOG_MESSAGE_BYTES
LogMessages ==
    {<<>>, <<"a">>, <<"C3", "A9">>,
     Ascii(MAX_LOG_MESSAGE_BYTES),
     Ascii(MAX_LOG_MESSAGE_BYTES + 1),
     Ascii(MAX_LOG_MESSAGE_BYTES - 2) \o <<"C3", "A9", "a">>,
     Ascii(MAX_LOG_MESSAGE_BYTES - 1) \o <<"C3", "A9">>}

\* The buffer after n calls of log that each appended a short message
LoggedShort(n) == [i \in 1..n |-> [level |-> "info", message |-> <<"a">>]]

\* The calls of log that a guest makes one after the other on a buffer
MaxLogCalls == 2

LogInit ==
    /\ applied \in {Some([fn |-> "log", logs |-> LoggedShort(n), level |-> level,
                          message |-> message, earlier |-> 0]) :
                       n \in {0, MAX_LOG_ENTRIES - 1, MAX_LOG_ENTRIES},
                       level \in LogLevels,
                       message \in LogMessages}
    /\ verdict = None
    /\ stdout_raw = <<>>
    /\ secret_list = <<>>
    /\ stdout = None
    /\ RuntimeNew
    /\ QueueNew
    /\ NoFiles

\* The guest calls log(level, message) on the buffer in applied
PushLog ==
    /\ applied # None
    /\ applied[1].fn = "log"
    /\ verdict = None
    /\ verdict' = Some(log(applied[1].logs, applied[1].level, applied[1].message))
    /\ UNCHANGED <<applied, stdout_raw, secret_list, stdout, hostVars, queueVars>>

\* The call has returned and the guest goes on to its next call of log; after
\* a panic there is no guest to go on
PushLogNext(level, message) ==
    /\ applied # None
    /\ applied[1].fn = "log"
    /\ verdict # None
    /\ ~verdict[1].panicked
    /\ applied[1].earlier + 1 < MaxLogCalls
    /\ applied' = Some([fn |-> "log", logs |-> verdict[1].logs, level |-> level,
                        message |-> message, earlier |-> applied[1].earlier + 1])
    /\ verdict' = None
    /\ UNCHANGED <<stdout_raw, secret_list, stdout, hostVars, queueVars>>

LogNext ==
    \/ PushLog
    \/ \E level \in LogLevels, message \in LogMessages : PushLogNext(level, message)

SpecLog == LogInit /\ [][LogNext]_vars

\* C31: a call of log that returns leaves at most MAX_LOG_ENTRIES entries in
\* the buffer, each with a message of at most MAX_LOG_MESSAGE_BYTES bytes, and
\* the entries that were in the buffer before the call are the first entries
\* after it, unchanged; on a full buffer the call changes nothing.
C31_BoundedAppendOnly ==
    (Returned("log") /\ ~verdict[1].panicked) =>
        /\ Len(verdict[1].logs) <= MAX_LOG_ENTRIES
        /\ \A i \in DOMAIN verdict[1].logs :
              Len(verdict[1].logs[i].message) <= MAX_LOG_MESSAGE_BYTES
        /\ Len(verdict[1].logs) >= Len(applied[1].logs)
        /\ SubSeq(verdict[1].logs, 1, Len(applied[1].logs)) = applied[1].logs
        /\ Len(applied[1].logs) >= MAX_LOG_ENTRIES => verdict[1].logs = applied[1].logs

\* C40: every call of log completes: it does not panic, and it leaves the
\* buffer as it was or with one entry more.
C40_LogCompletes ==
    Returned("log") =>
        /\ ~verdict[1].panicked
        /\ \/ verdict[1].logs = applied[1].logs
           \/ /\ Len(verdict[1].logs) = Len(applied[1].logs) + 1
              /\ SubSeq(verdict[1].logs, 1, Len(applied[1].logs)) = applied[1].logs


(***************************************************************************)
(* Invocations with their stores, limits and logs (runtime.rs,             *)
(* invoke_tool_internal, Host::tool_invoke, Host::log), SpecInvoke: the    *)
(* defaults of a discover request, the workspace root and the resolver of  *)
(* an invoke request and the tool the memory limiter is taken from vary.   *)
(***************************************************************************)
\* Host::log called by the guest of the top store.  A panic of push_log
\* unwinds through call_execute and out of the main loop: no store is left,
\* no response is made and the main thread is past the loop.
GuestLog(level, message) ==
    /\ CanCall("log")
    /\ IF log(Top.logs, level, message).panicked
       THEN /\ stack' = <<>>
            /\ pc' = "stopped"
            /\ UNCHANGED <<tools, defaults, result, response, effects, discVars, pureVars,
                           rx, closed, deferred, pending_host_results, call_seq, out,
                           request, waiting, last_wait, arrivals, returned, lockVars>>
       ELSE Apply("log", <<>>,
                  Outcome([Top EXCEPT !.logs = log(Top.logs, level, message).logs],
                          None, None, {}, {}))

\* The defaults of the discover requests
DefaultsSent ==
    {DefaultRuntimeDefaults,
     [default_memory_limit |-> 65536, default_timeout_ms |-> 5,
      default_fuel_limit |-> 7, max_tool_invoke_depth |-> 1],
     [default_memory_limit |-> 1, default_timeout_ms |-> 25,
      default_fuel_limit |-> 0, max_tool_invoke_depth |-> DefaultMaxToolInvokeDepth]}

\* What the invoke requests bring
InvokeContexts == {RequestContext, [workspace_root |-> "ws", host_invoke |-> "request2"]}

\* The messages of the traps: of the fuel, of the epoch deadline, of both,
\* of neither
TrapTexts ==
    TrapMessages \cup {<<"e", "p", "o", "c", "h", " ", "f", "u", "e", "l">>}

\* The main thread is in its loop
InLoop == pc # "stopped"

InvokeNext ==
    \/ \E dflts \in DefaultsSent : InLoop /\ Discover(dflts)
    \/ \E t \in {"chain", "exec", "ghost"}, i \in BOOLEAN, ctx \in InvokeContexts :
          \E first \in FirstTools(tools) : InLoop /\ Invoke(t, i, first, ctx)
    \/ \E a \in {"next", "leaf", "nope"}, i \in BOOLEAN :
          \E first \in FirstTools(tools) :
             InLoop /\ GuestToolInvoke(a, NamePayload(SecretPK), i, TRUE, first)
    \/ \E m \in {<<"a">>, Ascii(MAX_LOG_MESSAGE_BYTES - 1) \o <<"C3", "A9">>} :
          InLoop /\ GuestLog("Info", m)
    \/ \E pr \in {"echo", "rm"} :
          InLoop /\ GuestExecCommand(pr, Some(<<>>), Some(<<>>), TRUE, TRUE)
    \/ \E g \in GuestResponses : InLoop /\ GuestReturn(g)
    \/ \E m \in TrapTexts : InLoop /\ GuestTrap(m)

SpecInvoke == HostInit /\ [][InvokeNext]_vars



\* The policy state of a store: its capabilities, its counters, its logs
PolicyState(store) ==
    <<store.capabilities, store.http_request_count, store.tool_invoke_count,
      store.exec_command_count, store.logs>>

\* C32: a nested invocation runs under the policy of the invoked tool with
\* fresh counters and a fresh log buffer, at the caller's depth plus one and
\* with the caller's workspace root and host-call resolver; the host calls of
\* the callee are checked against the callee's policy and counted in the
\* callee's counters only; the caller's policy, its http and exec counters and
\* its logs are what they were when the callee returns.
C32_CalleeOwnPolicy ==
    [][LET n == Len(stack)
           m == Len(stack')
       IN /\ (n >= 1 /\ m = n + 1) =>
                 LET caller == stack[n]
                     callee == stack'[m]
                 IN /\ callee.tool \in DOMAIN tools
                    /\ callee.capabilities = tools[callee.tool].capabilities
                    /\ callee.http_request_count = 0
                    /\ callee.tool_invoke_count = 0
                    /\ callee.exec_command_count = 0
                    /\ callee.logs = <<>>
                    /\ callee.depth = caller.depth + 1
                    /\ callee.workspace_root = caller.workspace_root
                    /\ callee.host_invoke = caller.host_invoke
                    /\ stack'[n].capabilities = caller.capabilities
                    /\ stack'[n].http_request_count = caller.http_request_count
                    /\ stack'[n].exec_command_count = caller.exec_command_count
                    /\ stack'[n].logs = caller.logs
          /\ \A i \in 1..m : i < n => PolicyState(stack'[i]) = PolicyState(stack[i])
          /\ (n >= 1 /\ m = n /\ stack'[n].h.spawned > stack[n].h.spawned) =>
                 /\ stack[n].capabilities = tools[stack[n].tool].capabilities
                 /\ stack[n].capabilities.exec # None
                 /\ stack'[n].exec_command_count = stack[n].exec_command_count + 1
      ]_vars

\* The tool chain, which may run nothing and has logged, invoked the tool exec,
\* and the guest of exec ran a program.
C32_Witness ==
    /\ Len(stack) = 2
    /\ stack[1].tool = "chain" /\ stack[2].tool = "exec"
    /\ stack[1].capabilities.exec = None
    /\ stack[1].logs # <<>>
    /\ stack[1].tool_invoke_count = 1
    /\ stack[1].exec_command_count = 0
    /\ stack[2].logs = <<>>
    /\ stack[2].h.spawned = 1
    /\ stack[2].exec_command_count = 1



MentionsFuel(message) == Contains(message, <<"f", "u", "e", "l">>)

MentionsEpoch(message) == Contains(message, <<"e", "p", "o", "c", "h">>)

\* The error of a failure before the guest ran
BeforeGuest(err) == err.msg \in {"tool not found", "tool instantiation failed"}

\* The error of a trap carries a label for every word its message mentions.
LabelledByMention(err) ==
    /\ MentionsFuel(err.detail) => err.msg = "tool execution failed: fuel exhausted"
    /\ MentionsEpoch(err.detail) => err.msg = "tool execution failed: execution timed out"
    /\ (~MentionsFuel(err.detail) /\ ~MentionsEpoch(err.detail)) =>
           err.msg = "tool execution failed"

\* The error of a trap is labelled by the first of fuel, epoch its message
\* mentions.
LabelledByFirstMention(err) ==
    /\ MentionsFuel(err.detail) => err.msg = "tool execution failed: fuel exhausted"
    /\ (MentionsEpoch(err.detail) /\ ~MentionsFuel(err.detail)) =>
           err.msg = "tool execution failed: execution timed out"
    /\ (~MentionsFuel(err.detail) /\ ~MentionsEpoch(err.detail)) =>
           err.msg = "tool execution failed"

\* The end of an invocation, top-level or nested, with Labelled the labelling
\* of the errors of traps: the response of a top-level invocation and the
\* return value of the caller's tool_invoke of a nested one.
InvocationEnds(Labelled(_)) ==
    LET n == Len(stack)
    IN /\ (n = 0 /\ stack' = <<>> /\ response' # response /\ response' # None) =>
              /\ ~response'[1].ok
              /\ BeforeGuest(response'[1])
       /\ (n = 1 /\ stack' = <<>> /\ pc' # "stopped") =>
              /\ response' # None
              /\ IF response'[1].ok
                 THEN /\ result' = Some(response'[1].val)
                      /\ response'[1].val.logs = stack[1].logs
                      /\ response'[1].val.details =
                            [tool |-> stack[1].tool, depth |-> 0,
                             http_request_count |-> stack[1].http_request_count,
                             tool_invoke_count |-> stack[1].tool_invoke_count,
                             exec_command_count |-> stack[1].exec_command_count]
                 ELSE /\ result' = result
                      /\ Labelled(response'[1])
       /\ (n >= 2 /\ Len(stack') = n - 1) =>
              LET ret == stack'[n - 1].h.last.ret
              IN /\ stack'[n - 1].h.last.fn = "tool_invoke"
                 /\ IF ret.ok
                    THEN /\ result' # None
                         /\ result'[1].error = None
                         /\ result'[1].details.depth = stack[n].depth
                         /\ ret.val = IF result'[1].output_json # None
                                      THEN result'[1].output_json[1] ELSE JsonNull
                    ELSE IF ret.msg = "guest error"
                    THEN /\ result' # None
                         /\ result'[1].error = Some(ret.detail)
                         /\ result'[1].details.depth = stack[n].depth
                    ELSE /\ result' = result
                         /\ Labelled(ret)

\* C33 (as stated): an invoke whose guest returns normally yields an ok response
\* with the guest's output and error, the logs and the counters; a nested guest
\* error is the error of the caller's tool_invoke; a failure before the guest
\* or a trap yields an error, labelled fuel exhausted when the trap message
\* mentions fuel and execution timed out when it mentions epoch.
C33_LabelledByMention == [][InvocationEnds(LabelledByMention)]_vars

\* C33 (amended): the same, the label being execution timed out when the trap
\* message mentions epoch and does not mention fuel.
C33_LabelledByFirstMention == [][InvocationEnds(LabelledByFirstMention)]_vars

\* A nested invocation returned a guest error to its caller and the top-level
\* guest then ran into the epoch deadline.
C33_Witness ==
    /\ stack = <<>>
    /\ response # None /\ ~response[1].ok
    /\ response[1].msg = "tool execution failed: execution timed out"
    /\ result # None /\ result[1].error # None /\ result[1].details.depth = 1



\* The limits of a store are those of the tool `tool` of the tools map and
\* those of the defaults dflts.
OwnLimits(store, tool, dflts) ==
    /\ store.limiter.memory_limit = tool.limits.memory_bytes
    /\ store.fuel = tool.limits.fuel
    /\ store.epoch_deadline =
          (IF tool.limits.timeout_ms < 10 THEN 1 ELSE tool.limits.timeout_ms \div 10)
    /\ tool.limits.memory_bytes = dflts.default_memory_limit
    /\ tool.limits.fuel = dflts.default_fuel_limit
    /\ tool.limits.timeout_ms = dflts.default_timeout_ms

\* C36: every store, of a top-level or of a nested invocation, is created with
\* the limits of the invoked tool: the ceiling of the memory limiter is its
\* memory_bytes, the fuel its fuel, the epoch deadline max(1, timeout_ms / 10)
\* ticks; the limits of every prepared tool are the defaults of the last
\* discover request.
C36_OwnLimits ==
    [][/\ Len(stack') = Len(stack) + 1 =>
              LET store == stack'[Len(stack')]
              IN /\ store.tool \in DOMAIN tools'
                 /\ OwnLimits(store, tools'[store.tool], defaults')
       /\ \A n \in DOMAIN tools' : tools'[n].limits = ToolLimitsOf(defaults')
      ]_vars

\* After a discover request with a timeout under one tick, the tool chain
\* runs and has invoked the tool exec.
C36_Witness ==
    /\ Len(stack) = 2
    /\ stack[1].tool = "chain" /\ stack[2].tool = "exec"
    /\ defaults.default_timeout_ms = 5
    /\ \A i \in 1..2 : /\ stack[i].epoch_deadline = 1
                       /\ stack[i].limiter.memory_limit = 65536
                       /\ stack[i].fuel = 7



\* The errors of the rejections that come before a counter step
RejectedBeforeCounter ==
    {"http request blocked by allowlist", "unknown tool alias",
     "invalid args JSON", "invalid env JSON",
     "exec capability not granted", "program not in exec allowlist",
     "subcommand not allowed for program", "blocked flag for program"}

Counters(store) ==
    <<store.http_request_count, store.tool_invoke_count, store.exec_command_count>>

\* C37: a host call rejected before its counter step (an http_request the
\* allowlist blocks, a tool_invoke of an unknown alias, an exec_command with
\* malformed args or env JSON or denied by the exec policy) leaves the three
\* counters of the store as they were; an exec_command with malformed JSON is
\* rejected as such whatever the policy says of the program.
C37_RejectedNotCounted ==
    [][(/\ Running
        /\ Len(stack') = Len(stack)
        /\ effects'.ncalls = effects.ncalls + 1) =>
           LET last == stack'[Len(stack)].h.last
           IN /\ (/\ last.fn \in {"http_request", "tool_invoke", "exec_command"}
                  /\ ~last.ret.ok
                  /\ last.ret.msg \in RejectedBeforeCounter) =>
                     Counters(stack'[Len(stack)]) = Counters(Top)
              /\ (last.fn = "exec_command" /\ last.arg = FALSE) =>
                     /\ ~last.ret.ok
                     /\ last.ret.msg \in {"invalid args JSON", "invalid env JSON"}
              /\ (last.fn = "http_request" /\ ~last.ret.ok
                     /\ last.ret.msg \notin RejectedBeforeCounter) =>
                     stack'[Len(stack)].http_request_count = Top.http_request_count + 1
      ]_vars

\* The guest of exec, which ran two programs and is at its limit, called
\* exec_command with a malformed env JSON.
C37_Witness ==
    /\ Running
    /\ Top.tool = "exec"
    /\ Top.exec_command_count = 2
    /\ Top.h.spawned = 2
    /\ Top.h.last.fn = "exec_command"
    /\ ~Top.h.last.ret.ok
    /\ Top.h.last.ret.msg = "invalid env JSON"



\* C34: secret_exists of a name the policy allows is true when the external
\* resolver reports the secret present and, when the resolver reports it absent
\* or gives no answer, whether the process environment has a non-empty variable
\* of that name; so it is true for every allowed name whose resolution would
\* succeed.
C34_ExistsWhenResolvable ==
    (/\ Running
     /\ Top.h.last.fn = "secret_exists"
     /\ secret_allowed(Top.capabilities, Top.h.last.arg[1])) =>
        LET name == Top.h.last.arg[1]
            up == Top.h.last.arg[2]
            present == up /\ name \in DOMAIN HostSecrets
        IN /\ Top.h.last.ret = (IF present THEN TRUE ELSE env_secret_exists(name))
           /\ resolve_secret_for_host(name, up) # None => Top.h.last.ret = TRUE



(***************************************************************************)
(* Host::http_request with its credential injection on its own             *)
(* (runtime.rs, apply_http_credentials), SpecCredentials: the credential   *)
(* mappings of the policy, the allowed secret names, the request and the   *)
(* answer of the resolver are drawn, and the request is made twice, each   *)
(* time under an order of iteration of the HashMap of mappings.            *)
(*   applied  the call: the store, the request, whether the resolver       *)
(*            answers, and the first run once the second is under way      *)
(*   verdict  the run: the order of the mappings, the request the          *)
(*            injection built and the outcome of http_request              *)
(***************************************************************************)
\* The credential mappings a capability file may hold
CredentialMenu ==
    [tok |-> [secret_name |-> SecretTA, location |-> [type |-> "bearer"],
              host_patterns |-> <<>>],
     bas |-> [secret_name |-> SecretTB,
              location |-> [type |-> "basic", username |-> <<"u">>],
              host_patterns |-> << <<"*", ".", "x">> >>],
     key |-> [secret_name |-> SecretPK,
              location |-> [type |-> "query_param", name |-> <<"k">>],
              host_patterns |-> <<>>],
     far |-> [secret_name |-> SecretTB,
              location |-> [type |-> "header", name |-> "x-key", prefix |-> <<>>],
              host_patterns |-> << <<"b", ".", "x">> >>]]

\* The allowed_names of the secrets section
AllowedNamesMenu ==
    {<<SecretTA>>, << <<"T", "*">> >>, << SecretPK, <<"T", "*">> >>}

CredentialUrls ==
    { [parses |-> TRUE, host |-> Some(<<"a", ".", "x">>), path |-> <<"/", "v">>,
       query |-> <<>>],
      [parses |-> TRUE, host |-> Some(<<"b", ".", "x">>), path |-> <<"/", "v">>,
       query |-> <<>>],
      [parses |-> TRUE, host |-> Some(<<"b", ".", "y">>), path |-> <<"/", "v">>,
       query |-> <<>>] }

\* The capabilities of a tool with the mappings `names` and the secrets
\* section `allowed`
CredentialCaps(names, allowed) ==
    [DefaultCapabilities EXCEPT
        !.http = Some([allowlist |-> << [host |-> <<"*", ".", "x">>,
                                         path_prefix |-> None,
                                         methods |-> <<>>] >>,
                       credentials |-> [n \in names |-> CredentialMenu[n]],
                       max_request_bytes |-> None,
                       max_response_bytes |-> None,
                       rate_limit |-> RateLimit(2)]),
        !.secrets = Some([allowed_names |-> allowed])]

\* The store of an invocation of the tool that made `count` requests
CredentialStore(names, allowed, count) ==
    [NewStoreData([name |-> "http", capabilities |-> CredentialCaps(names, allowed)],
                  0, DefaultMaxToolInvokeDepth, 10 * 1024 * 1024,
                  RequestContext.workspace_root, RequestContext.host_invoke)
     EXCEPT !.http_request_count = count]

CredentialCalls(counts) ==
    {[fn |-> "http_request", store |-> CredentialStore(names, allowed, count),
      url |-> url, up |-> up, first |-> None] :
        names \in SUBSET DOMAIN CredentialMenu, allowed \in AllowedNamesMenu,
        count \in counts, url \in CredentialUrls, up \in BOOLEAN}

CredentialInit ==
    /\ applied \in {Some(c) : c \in CredentialCalls({0, 2})}
    /\ verdict = None
    /\ stdout_raw = <<>>
    /\ secret_list = <<>>
    /\ stdout = None
    /\ RuntimeNew
    /\ QueueNew
    /\ NoFiles

\* One run of Host::http_request on the store, the HashMap of mappings being
\* iterated in `order`; req is the request apply_http_credentials builds when
\* the call gets that far.
SendRequest(order) ==
    /\ applied # None /\ applied[1].fn = "http_request"
    /\ verdict = None
    /\ order \in CredentialOrders(applied[1].store.capabilities)
    /\ verdict' =
          Some([order |-> order,
                req |-> apply_http_credentials(applied[1].store, applied[1].url,
                                               EmptyMap, order, applied[1].up),
                out |-> http_request(applied[1].store, <<"G", "E", "T">>,
                                     applied[1].url, EmptyMap, None, order,
                                     applied[1].up, "plain")])
    /\ UNCHANGED <<applied, stdout_raw, secret_list, stdout, hostVars, queueVars>>

\* The same call is made in another run of the process.
RunAgain ==
    /\ applied # None /\ applied[1].fn = "http_request"
    /\ verdict # None
    /\ applied[1].first = None
    /\ applied' = Some([applied[1] EXCEPT !.first = verdict])
    /\ verdict' = None
    /\ UNCHANGED <<stdout_raw, secret_list, stdout, hostVars, queueVars>>

CredentialNext ==
    \/ \E names \in SUBSET DOMAIN CredentialMenu :
          \E order \in Orderings(names) : SendRequest(order)
    \/ RunAgain

SpecCredentials == CredentialInit /\ [][CredentialNext]_vars



\* The host patterns of the mapping are empty or match the host of the URL
\* and the secrets section allows its secret.
Qualifies(caps, mapping, url) ==
    /\ \/ mapping.host_patterns = <<>>
       \/ \E i \in DOMAIN mapping.host_patterns :
             host_matches_pattern(url.host[1], mapping.host_patterns[i])
    /\ secret_allowed(caps, mapping.secret_name)

\* The header a mapping writes, for the header locations
CredentialHeader(mapping) ==
    IF mapping.location.type \in {"bearer", "basic"} THEN Some(Authorization)
    ELSE IF mapping.location.type = "header" THEN Some(mapping.location.name)
    ELSE None

\* C35: http_request injects a credential only from a mapping whose host
\* patterns are empty or match the host of the URL and whose secret the secrets
\* section allows; a mapping whose secret does not resolve is skipped and the
\* request goes on; a request the allowlist blocked or the rate limit
\* rejected gets no credential and asks for no secret.
C35_InjectsOnlyQualified ==
    (applied # None /\ applied[1].fn = "http_request" /\ verdict # None) =>
        LET c == applied[1]
            caps == c.store.capabilities
            creds == caps.http[1].credentials
            req == verdict[1].req
            done == verdict[1].out
            good == {n \in DOMAIN creds :
                        /\ Qualifies(caps, creds[n], c.url)
                        /\ resolve_secret_for_host(creds[n].secret_name, c.up) # None}
        IN IF ~done.ret.ok /\ done.ret.msg \in {"http request blocked by allowlist",
                                              "http request rate limit exceeded"}
           THEN /\ done.store.h.injected = {}
                /\ done.store.h.sent = 0
                /\ done.host_calls = {}
                /\ done.env_reads = {}
           ELSE /\ done.ret.ok
                /\ done.store.h.sent = 1
                /\ done.store.h.injected = req.resolved
                /\ req.resolved =
                      {resolve_secret_for_host(creds[n].secret_name, c.up)[1] : n \in good}
                /\ DOMAIN req.headers =
                      {CredentialHeader(creds[n])[1] :
                          n \in {g \in good : CredentialHeader(creds[g]) # None}}
                /\ \A i \in DOMAIN req.url.query :
                      \E n \in good :
                         /\ creds[n].location.type = "query_param"
                         /\ req.url.query[i] =
                               [name |-> creds[n].location.name,
                                value |-> resolve_secret_for_host(creds[n].secret_name,
                                                                  c.up)[1]]
                /\ \A call \in done.host_calls :
                      \E n \in DOMAIN creds :
                         /\ Qualifies(caps, creds[n], c.url)
                         /\ call.params = NamePayload(creds[n].secret_name)

\* A request to a.x under a policy with a bearer mapping whose secret does not
\* resolve, a basic mapping that matches and a header mapping for another
\* host: the request was sent with the basic credential only.
C35_Witness ==
    /\ applied # None /\ applied[1].fn = "http_request" /\ verdict # None
    /\ {"tok", "bas", "far"} \subseteq DOMAIN applied[1].store.capabilities.http[1].credentials
    /\ applied[1].url.host = Some(<<"a", ".", "x">>)
    /\ ~applied[1].up
    /\ verdict[1].out.ret.ok
    /\ DOMAIN verdict[1].req.headers = {Authorization}
    /\ verdict[1].req.headers[Authorization] =
          Basic \o Base64(<<"u", ":">> \o ProcessEnv[SecretTB])
    /\ verdict[1].req.resolved = {ProcessEnv[SecretTB]}



\* C39: for a fixed policy, URL, guest headers and secret values the headers
\* and the URL the credential injection produces are the same on every run,
\* also when several mappings match and write the same header.
C39_SameRequestEveryRun ==
    (/\ applied # None /\ applied[1].fn = "http_request"
     /\ applied[1].first # None /\ verdict # None) =>
        /\ verdict[1].req.headers = applied[1].first[1].req.headers
        /\ verdict[1].req.url = applied[1].first[1].req.url



(***************************************************************************)
(* The scopes of the queue mutex (main.rs, run and                         *)
(* wait_for_host_call_result), SpecLock: the main loop and the host-call   *)
(* wait step by step, each queue.lock() and each end of a guard's scope a  *)
(* step of its own.  The wait runs on the thread of the main loop, inside  *)
(* runtime.invoke; the stdin thread only sends on the channel.             *)
(*   pc  "idle"        at the top of the main loop                         *)
(*       "recv"        in recv_next, the guard of the loop's block held    *)
(*       "dispatch"    at the match on the request                         *)
(*       "store"       in the HostCallResult arm, its guard held           *)
(*       "invoking"    in runtime.invoke, the guest running                *)
(*       "waiting"     at the top of the loop of the wait                  *)
(*       "wait_recv"   in the first block of the wait, its guard held      *)
(*       "wait_match"  at the match of the wait on the request             *)
(*       "wait_store", "wait_stash"  in an arm of that match, guard held   *)
(*       "blocked"     in queue.lock() on a mutex the thread itself holds  *)
(*       "stopped"     past the main loop                                  *)
(***************************************************************************)
\* queue.lock() in the scope `scope`: the thread gets the guard when the mutex
\* is free; the mutex is not reentrant, so it waits for ever when a guard of
\* its own is alive.
Lock(scope, then) ==
    IF guard = <<>>
    THEN guard' = <<scope>> /\ pc' = then
    ELSE guard' = guard /\ pc' = "blocked"

\* The guard is never dropped
DropGuardNever(guards) == guards

\* The end of the scope of the guard locked last: the guard is dropped
DropGuard(guards) == SubSeq(guards, 1, Len(guards) - 1)

\* The pop of recv_next / recv_next_timeout
PopReceived ==
    /\ in_hand' = Some(Received)
    /\ deferred' = IF deferred # <<>> THEN Tail(deferred) ELSE deferred
    /\ rx' = IF deferred # <<>> THEN rx ELSE Tail(rx)

\* let mut guard = queue.lock() of the block of the main loop
RunLock ==
    /\ pc = "idle"
    /\ Lock("run.recv_next", "recv")
    /\ UNCHANGED <<rx, closed, deferred, pending_host_results, call_seq, out, request,
                   waiting, last_wait, arrivals, returned, in_hand, hostVars, pureVars>>

\* guard.recv_next() returns a request and the block ends
RunRecvNext ==
    /\ pc = "recv" /\ CanRecv
    /\ PopReceived
    /\ guard' = DropGuard(guard)
    /\ pc' = "dispatch"
    /\ UNCHANGED <<closed, pending_host_results, call_seq, out, request, waiting,
                   last_wait, arrivals, returned, hostVars, pureVars>>

\* guard.recv_next() returns None, the block ends and the loop breaks
RunRecvNone ==
    /\ pc = "recv" /\ ~CanRecv /\ closed
    /\ guard' = DropGuard(guard)
    /\ pc' = "stopped"
    /\ UNCHANGED <<rx, closed, deferred, pending_host_results, call_seq, out, request,
                   waiting, last_wait, arrivals, returned, in_hand, hostVars, pureVars>>

\* The arms Hello, Discover and Shutdown
RunRespond ==
    /\ pc = "dispatch"
    /\ in_hand[1].req.kind \in {"hello", "discover", "shutdown"}
    /\ LET req == in_hand[1].req
       IN /\ out' = Append(out,
                       IF req.kind = "hello"
                       THEN IF req.version # None /\ req.version[1] # PROTOCOL_VERSION
                            THEN ResponseErr(req.id, "unsupported protocol version")
                            ELSE ResponseOk(req.id, "version")
                       ELSE IF req.kind = "discover"
                       THEN ResponseOk(req.id, "discovered")
                       ELSE ResponseOk(req.id, "stopped"))
          /\ pc' = IF req.kind = "shutdown" THEN "stopped" ELSE "idle"
    /\ in_hand' = None
    /\ UNCHANGED <<rx, closed, deferred, pending_host_results, call_seq, request,
                   waiting, last_wait, arrivals, returned, guard, hostVars, pureVars>>

\* The arm Invoke up to the call of runtime.invoke
RunInvoke ==
    /\ pc = "dispatch"
    /\ in_hand[1].req.kind = "invoke"
    /\ request' = Some(in_hand[1].req.id)
    /\ pc' = "invoking"
    /\ in_hand' = None
    /\ UNCHANGED <<rx, closed, deferred, pending_host_results, call_seq, out,
                   waiting, last_wait, arrivals, returned, guard, hostVars, pureVars>>

\* let mut guard = queue.lock() of the arm HostCallResult
RunLockStore ==
    /\ pc = "dispatch"
    /\ in_hand[1].req.kind = "host_call_result"
    /\ Lock("run.store_host_result", "store")
    /\ UNCHANGED <<rx, closed, deferred, pending_host_results, call_seq, out, request,
                   waiting, last_wait, arrivals, returned, in_hand, hostVars, pureVars>>

\* guard.store_host_result, the response, and the end of the arm
RunStore ==
    /\ pc = "store"
    /\ pending_host_results' =
          store_host_result(pending_host_results, in_hand[1].req.call_id,
                            PayloadOf(in_hand[1].req))
    /\ out' = Append(out, ResponseOk(in_hand[1].req.id, "accepted"))
    /\ guard' = DropGuard(guard)
    /\ pc' = "idle"
    /\ in_hand' = None
    /\ UNCHANGED <<rx, closed, deferred, call_seq, request, waiting, last_wait,
                   arrivals, returned, hostVars, pureVars>>

\* let mut guard = queue.lock() of the first block of the loop of the wait
WaitLock ==
    /\ pc = "waiting"
    /\ Lock("wait.recv_next_timeout", "wait_recv")
    /\ UNCHANGED <<rx, closed, deferred, pending_host_results, call_seq, out, request,
                   waiting, last_wait, arrivals, returned, in_hand, hostVars, pureVars>>

\* wait_for_host_call_result returns res from the scope of a guard or from
\* the match: the guards of the function are dropped.
WaitLeaves(res, payload, via) ==
    /\ pc' = "invoking"
    /\ waiting' = None
    /\ last_wait' = Some([call_id |-> Target, res |-> res])
    /\ returned' = IF payload = None THEN returned
                   ELSE Append(returned, [waiter |-> Target, via |-> via,
                                          from |-> payload[1].from])
    /\ guard' = IF guard = <<>> THEN guard ELSE DropGuard(guard)
    /\ in_hand' = None
    /\ UNCHANGED <<closed, call_seq, out, request, arrivals, hostVars, pureVars>>

\* The first block finds the result in the map, or the deadline reached, or
\* the queue empty and recv_timeout failing
WaitLeavesBlock ==
    /\ pc = "wait_recv"
    /\ LET found == take_host_result(pending_host_results, Target)
       IN IF found.payload # None
          THEN /\ pending_host_results' = found.rest
               /\ WaitLeaves(host_result_payload_to_result(found.payload[1]),
                             found.payload, "map")
          ELSE /\ waiting[1].expired \/ ~CanRecv
               /\ UNCHANGED pending_host_results
               /\ IF waiting[1].expired
                  THEN WaitLeaves(Err(TimedOut, Target), None, "none")
                  ELSE WaitLeaves(Err(InputClosed, Target), None, "none")
    /\ UNCHANGED <<rx, deferred>>

\* guard.recv_next_timeout(remaining) returns a request and the block ends
WaitRecv ==
    /\ pc = "wait_recv"
    /\ take_host_result(pending_host_results, Target).payload = None
    /\ ~waiting[1].expired
    /\ CanRecv
    /\ PopReceived
    /\ guard' = DropGuard(guard)
    /\ pc' = "wait_match"
    /\ UNCHANGED <<closed, pending_host_results, call_seq, out, request, waiting,
                   last_wait, arrivals, returned, hostVars, pureVars>>

\* The match finds the result of the call waited for
WaitMatched ==
    /\ pc = "wait_match"
    /\ in_hand[1].req.kind = "host_call_result"
    /\ in_hand[1].req.call_id = Target
    /\ WaitLeaves(host_result_payload_to_result(PayloadOf(in_hand[1].req)),
                  Some(PayloadOf(in_hand[1].req)), "channel")
    /\ UNCHANGED <<rx, deferred, pending_host_results>>

\* let mut guard = queue.lock() of the two other arms of the match
WaitLockArm ==
    /\ pc = "wait_match"
    /\ ~(in_hand[1].req.kind = "host_call_result" /\ in_hand[1].req.call_id = Target)
    /\ IF in_hand[1].req.kind = "host_call_result"
       THEN Lock("wait.store_host_result", "wait_store")
       ELSE Lock("wait.stash_deferred", "wait_stash")
    /\ UNCHANGED <<rx, closed, deferred, pending_host_results, call_seq, out, request,
                   waiting, last_wait, arrivals, returned, in_hand, hostVars, pureVars>>

\* guard.store_host_result / guard.stash_deferred and the end of the arm
WaitKeep ==
    /\ pc \in {"wait_store", "wait_stash"}
    /\ pending_host_results' =
          IF pc = "wait_store"
          THEN store_host_result(pending_host_results, in_hand[1].req.call_id,
                                 PayloadOf(in_hand[1].req))
          ELSE pending_host_results
    /\ deferred' = IF pc = "wait_stash" THEN stash_deferred(deferred, in_hand[1])
                   ELSE deferred
    /\ guard' = DropGuard(guard)
    /\ pc' = "waiting"
    /\ in_hand' = None
    /\ UNCHANGED <<rx, closed, call_seq, out, request, waiting, last_wait, arrivals,
                   returned, hostVars, pureVars>>

\* The clock reaches the deadline of the wait.
DeadlineReached ==
    /\ waiting # None /\ ~waiting[1].expired
    /\ pc \in {"waiting", "wait_match"}
    /\ waiting' = Some([waiting[1] EXCEPT !.expired = TRUE])
    /\ UNCHANGED <<rx, closed, deferred, pending_host_results, call_seq, out, pc,
                   request, last_wait, arrivals, returned, lockVars, hostVars, pureVars>>

\* The requests sent: one of each arm of the two matches (a response to a
\* hello request and the payload of a result do not bear on the mutex)
LockRequests(n) ==
    {req \in Requests(n) : /\ req.kind # "hello"
                           /\ req.kind = "host_call_result" => req.ok}

LockNext ==
    \/ \E n \in 1..MaxInbound : \E req \in LockRequests(n) : Arrive(req)
    \/ Close
    \/ RunLock
    \/ RunRecvNext
    \/ RunRecvNone
    \/ RunRespond
    \/ RunInvoke
    \/ RunLockStore
    \/ RunStore
    \/ GuestHostInvoke(FALSE)
    \/ InvokeDone(TRUE)
    \/ WaitLock
    \/ WaitLeavesBlock
    \/ WaitRecv
    \/ WaitMatched
    \/ WaitLockArm
    \/ WaitKeep
    \/ DeadlineReached

SpecLock == QueueInit /\ [][LockNext]_vars

\* C38: the thread never asks for the queue mutex while a guard of its own is
\* alive, so it is never blocked on it for ever: the main loop has dropped its
\* guard when it dispatches the request and while the invocation runs, the
\* wait has dropped its guard between taking a request and storing or
\* deferring it, and every queue.lock() finds the mutex free.
C38_NeverLockedTwice ==
    /\ pc # "blocked"
    /\ Len(guard) <= 1
    /\ pc \in {"idle", "dispatch", "invoking", "waiting", "wait_match", "stopped"} =>
          guard = <<>>
    /\ pc \in {"recv", "store", "wait_recv", "wait_store", "wait_stash"} =>
          Len(guard) = 1

\* During an invocation the wait took a request of another kind from the
\* queue, dropped its guard and locked again to defer the request.
C38_Witness ==
    /\ pc = "wait_stash"
    /\ guard = <<"wait.stash_deferred">>
    /\ request # None
    /\ in_hand # None /\ in_hand[1].req.kind = "invoke"
    /\ pending_host_results # EmptyMap


====
